---- MODULE Spec2Model ----
(***************************************************************************)
(* A model of the binary container codec of vrm-resizer                    *)
(* (src/services/vrmService.ts): parseGlb and rebuildGlb, down to the      *)
(* bytes of the container, the UTF-16 / UTF-8 lengths of the serialized    *)
(* structural document and the JSON text itself.                           *)
(*                                                                         *)
(* Bytes are the integers 0..255, byte arrays are sequences (position k    *)
(* of the source is element k + 1), JavaScript strings are sequences of    *)
(* code points, and a JSON value is a record [t, v] with                   *)
(*   t = "num"   v a natural number                                       *)
(*   t = "str"   v a sequence of code points                              *)
(*   t = "arr"   v a sequence of JSON values                              *)
(*   t = "obj"   v a sequence of members [k |-> key, v |-> JSON value],   *)
(*               in insertion order, as a JavaScript object keeps them    *)
(*   t = "undef" JavaScript's undefined (a missing property)              *)
(*   t = "nan"   the number NaN (arithmetic on undefined)                 *)
(***************************************************************************)
EXTENDS Integers, Sequences, FiniteSets, TLC

(***************************************************************************)
(* Constants of the source.                                                *)
(***************************************************************************)
GLB_HEADER_SIZE == 12

CHUNK_HEADER_SIZE == 8

\* 0x4e4f534a, "JSON"
JSON_CHUNK_TYPE == 1313821514

\* 0x004e4942, "BIN\0"
BIN_CHUNK_TYPE == 5130562

\* 0x46546c67, "glTF"
GLB_MAGIC == 1179937895

GLB_VERSION == 2

(***************************************************************************)
(* Sequence helpers.                                                       *)
(***************************************************************************)
RECURSIVE Repeat(_, _)
\* String.prototype.repeat for a one-character string; a zero-filled tail.
Repeat(c, n) == IF n <= 0 THEN <<>> ELSE <<c>> \o Repeat(c, n - 1)

Min(a, b) == IF a < b THEN a ELSE b

Max(a, b) == IF a > b THEN a ELSE b

\* The elements at the source positions from..to-1 (0-based, to exclusive).
Range0(s, from, to) == [k \in 1..(to - from) |-> s[from + k]]

\* F applied to the value of e, which is computed once.
Bind(e, F(_)) == CHOOSE y \in { F(v) : v \in { e } } : TRUE

RECURSIVE SumLen(_, _)
\* The total length of the first n sequences of ss.
SumLen(ss, n) == IF n = 0 THEN 0 ELSE SumLen(ss, n - 1) + Len(ss[n])

RECURSIVE Concat(_, _)
\* The concatenation of the first n sequences of ss.
Concat(ss, n) == IF n = 0 THEN <<>> ELSE Concat(ss, n - 1) \o ss[n]

(***************************************************************************)
(* DataView and typed arrays.                                              *)
(***************************************************************************)
\* DataView.setUint32(_, n, true): the four little-endian bytes of n.
setUint32(n) ==
  << n % 256, (n \div 256) % 256, (n \div 65536) % 256, (n \div 16777216) % 256 >>

\* DataView.getUint32(off, true) can be read: off + 4 <= byteLength.
canGetUint32(buf, off) == off + 4 <= Len(buf)

\* DataView.getUint32(off, true), little-endian.
getUint32(buf, off) ==
  buf[off + 1] + 256 * buf[off + 2] + 65536 * buf[off + 3] + 16777216 * buf[off + 4]

\* ToIntegerOrInfinity of a typed-array index argument: undefined and NaN are 0.
ToIndex(x) == IF x.t = "num" THEN x.v ELSE 0

\* Uint8Array.prototype.slice(start, end) for non-negative arguments: both
\* ends are clamped to the length, and an empty range yields an empty array.
slice(arr, start, end) ==
  LET s == Min(start, Len(arr))
      e == Min(end, Len(arr))
  IN  IF e <= s THEN <<>> ELSE Range0(arr, s, e)

(***************************************************************************)
(* TextEncoder / TextDecoder (UTF-8) and the length of a JavaScript        *)
(* string (UTF-16 code units).                                             *)
(***************************************************************************)
\* The UTF-8 bytes of one code point.
Utf8Char(cp) ==
  IF cp < 128 THEN << cp >>
  ELSE IF cp < 2048 THEN << 192 + (cp \div 64), 128 + (cp % 64) >>
  ELSE IF cp < 65536
    THEN << 224 + (cp \div 4096), 128 + ((cp \div 64) % 64), 128 + (cp % 64) >>
  ELSE << 240 + (cp \div 262144), 128 + ((cp \div 4096) % 64),
          128 + ((cp \div 64) % 64), 128 + (cp % 64) >>

RECURSIVE EncodeRange(_, _, _)
\* The UTF-8 bytes of the code points str[lo..hi].
EncodeRange(str, lo, hi) ==
  IF lo > hi THEN <<>>
  ELSE IF lo = hi THEN Utf8Char(str[lo])
  ELSE EncodeRange(str, lo, (lo + hi) \div 2) \o EncodeRange(str, (lo + hi) \div 2 + 1, hi)

\* new TextEncoder().encode(str)
TextEncode(str) == EncodeRange(str, 1, Len(str))

\* String.prototype.length: UTF-16 code units, not bytes and not code
\* points: a code point above U+FFFF is a surrogate pair.
StringLength(str) == Len(str) + Len(SelectSeq(str, LAMBDA cp : cp >= 65536))

\* Whether the byte at 1-based position p is a UTF-8 continuation byte.
IsCont(bytes, p) == p >= 1 /\ p <= Len(bytes) /\ bytes[p] >= 128 /\ bytes[p] < 192

\* The number of bytes of the well-formed sequence that starts at p: 0 when
\* the byte at p starts none (a stray continuation byte, a cut sequence).
SeqLen(bytes, p) ==
  LET b == bytes[p]
  IN  IF b < 128 THEN 1
      ELSE IF b >= 192 /\ b < 224 /\ IsCont(bytes, p + 1) THEN 2
      ELSE IF b >= 224 /\ b < 240 /\ IsCont(bytes, p + 1) /\ IsCont(bytes, p + 2) THEN 3
      ELSE IF b >= 240 /\ b < 248 /\ IsCont(bytes, p + 1) /\ IsCont(bytes, p + 2)
              /\ IsCont(bytes, p + 3) THEN 4
      ELSE 0

\* Whether the byte at p belongs to a sequence that starts before p.
Covered(bytes, p) ==
  /\ IsCont(bytes, p)
  /\ \E q \in (p - 3)..(p - 1) : q >= 1 /\ q + SeqLen(bytes, q) > p

\* The code point decoded at a position that starts a character: U+FFFD
\* for a byte that starts no well-formed sequence (the decoder is not fatal).
DecodeAt(bytes, p) ==
  LET b == bytes[p]
      n == SeqLen(bytes, p)
  IN  CASE n = 1 -> b
        [] n = 2 -> (b - 192) * 64 + (bytes[p + 1] - 128)
        [] n = 3 -> (b - 224) * 4096 + (bytes[p + 1] - 128) * 64 + (bytes[p + 2] - 128)
        [] n = 4 -> (b - 240) * 262144 + (bytes[p + 1] - 128) * 4096
                    + (bytes[p + 2] - 128) * 64 + (bytes[p + 3] - 128)
        [] OTHER -> 65533

\* textDecoder.decode(bytes): one code point per position that no earlier
\* sequence covers.
TextDecode(bytes) ==
  LET starts == SelectSeq([p \in 1..Len(bytes) |-> p], LAMBDA p : ~Covered(bytes, p))
  IN  [k \in 1..Len(starts) |-> DecodeAt(bytes, starts[k])]

(***************************************************************************)
(* JSON values.                                                            *)
(***************************************************************************)
Undefined == [t |-> "undef", v |-> 0]

NaN == [t |-> "nan", v |-> 0]

Num(n) == [t |-> "num", v |-> n]

Str(s) == [t |-> "str", v |-> s]

Arr(a) == [t |-> "arr", v |-> a]

Obj(members) == [t |-> "obj", v |-> members]

IsObj(x) == x.t = "obj"

IsArr(x) == x.t = "arr"

\* JavaScript's !x for the values of the model.
Falsy(x) ==
  \/ x.t = "undef"
  \/ x.t = "nan"
  \/ (x.t = "num" /\ x.v = 0)
  \/ (x.t = "str" /\ x.v = <<>>)

\* a + b of two numbers; NaN as soon as one operand is undefined or NaN.
Plus(a, b) == IF a.t = "num" /\ b.t = "num" THEN Num(a.v + b.v) ELSE NaN

\* The positions of key k among the members of an object.
KeyPos(o, k) == { p \in 1..Len(o.v) : o.v[p].k = k }

\* o[k]: the property k of an object, undefined when it has none.
Get(o, k) ==
  IF IsObj(o) /\ KeyPos(o, k) # {}
    THEN o.v[CHOOSE p \in KeyPos(o, k) : TRUE].v
    ELSE Undefined

\* o[k] = x: an existing property keeps its place, a new one goes last.
Set(o, k, x) ==
  IF KeyPos(o, k) # {}
    THEN Obj([p \in 1..Len(o.v) |-> IF o.v[p].k = k THEN [k |-> k, v |-> x] ELSE o.v[p]])
    ELSE Obj(Append(o.v, [k |-> k, v |-> x]))

\* a[i] for a 0-based index i, undefined outside the array.
At(a, i) == IF IsArr(a) /\ i >= 0 /\ i < Len(a.v) THEN a.v[i + 1] ELSE Undefined

\* a.length
Length(a) == Len(a.v)

\* a[i] = x for an index inside the array.
SetAt(a, i, x) == Arr([p \in 1..Len(a.v) |-> IF p = i + 1 THEN x ELSE a.v[p]])

(***************************************************************************)
(* JSON.stringify and JSON.parse, for the values of the model: objects,    *)
(* arrays, strings and natural numbers.                                    *)
(***************************************************************************)
RECURSIVE Digits(_)
\* The decimal digits of a natural number, as code points.
Digits(n) == IF n < 10 THEN << 48 + n >> ELSE Digits(n \div 10) \o << 48 + (n % 10) >>

RECURSIVE QuoteBody(_)
\* The characters of a string between its quotes: " and \ are escaped.
QuoteBody(s) ==
  IF s = <<>> THEN <<>>
  ELSE (IF Head(s) = 34 \/ Head(s) = 92 THEN << 92, Head(s) >> ELSE << Head(s) >>)
       \o QuoteBody(Tail(s))

Quote(s) == << 34 >> \o QuoteBody(s) \o << 34 >>

RECURSIVE JSON_stringify(_)
RECURSIVE StringifyElements(_, _)
RECURSIVE StringifyMembers(_, _)
\* The first n elements of an array, separated by commas; undefined is null.
StringifyElements(a, n) ==
  IF n = 0 THEN <<>>
  ELSE StringifyElements(a, n - 1) \o (IF n > 1 THEN << 44 >> ELSE <<>>)
       \o (IF a[n].t \in {"undef", "nan"} THEN << 110, 117, 108, 108 >>
           ELSE JSON_stringify(a[n]))

\* The first n members of an object; a member whose value is undefined is
\* left out.
StringifyMembers(m, n) ==
  IF n = 0 THEN <<>>
  ELSE LET before == StringifyMembers(m, n - 1)
       IN  IF m[n].v.t = "undef" THEN before
           ELSE before \o (IF before # <<>> THEN << 44 >> ELSE <<>>)
                \o Quote(m[n].k) \o << 58 >>
                \o (IF m[n].v.t = "nan" THEN << 110, 117, 108, 108 >>
                    ELSE JSON_stringify(m[n].v))

\* JSON.stringify(x), without indentation.
JSON_stringify(x) ==
  CASE x.t = "num" -> Digits(x.v)
    [] x.t = "str" -> Quote(x.v)
    [] x.t = "arr" -> << 91 >> \o StringifyElements(x.v, Len(x.v)) \o << 93 >>
    [] x.t = "obj" -> << 123 >> \o StringifyMembers(x.v, Len(x.v)) \o << 125 >>
    [] OTHER -> << 110, 117, 108, 108 >>

\* JSON white space.
IsWs(c) == c \in {32, 9, 10, 13}

IsDigit(c) == c >= 48 /\ c <= 57

RECURSIVE SkipWs(_, _)
\* The first position from p on that holds no white space.
SkipWs(s, p) == IF p <= Len(s) /\ IsWs(s[p]) THEN SkipWs(s, p + 1) ELSE p

\* A parse step's result: the value read and the position after it, or a
\* failure (a SyntaxError).
Parsed(x, p) == [ok |-> TRUE, x |-> x, p |-> p]

SyntaxError == [ok |-> FALSE, x |-> Undefined, p |-> 0]

RECURSIVE ParseNumber(_, _, _)
\* The digits from p on, after the digits that made n.
ParseNumber(s, p, n) ==
  IF p <= Len(s) /\ IsDigit(s[p])
    THEN ParseNumber(s, p + 1, 10 * n + (s[p] - 48))
    ELSE Parsed(Num(n), p)

RECURSIVE ParseString(_, _, _)
\* The characters of a string from p on (after the opening quote), after
\* the characters acc.
ParseString(s, p, acc) ==
  IF p > Len(s) THEN SyntaxError
  ELSE IF s[p] = 34 THEN Parsed(Str(acc), p + 1)
  ELSE IF s[p] = 92
    THEN IF p + 1 <= Len(s) /\ s[p + 1] \in {34, 92}
           THEN ParseString(s, p + 2, Append(acc, s[p + 1]))
           ELSE SyntaxError
  ELSE IF s[p] < 32 THEN SyntaxError
  ELSE ParseString(s, p + 1, Append(acc, s[p]))

RECURSIVE ParseValue(_, _)
RECURSIVE ParseElements(_, _, _)
RECURSIVE ParseMembers(_, _, _)
\* The elements of an array from p on (after "[" or ","), after acc.
ParseElements(s, p, acc) ==
  LET e == ParseValue(s, p)
      q == SkipWs(s, e.p)
  IN  IF ~e.ok \/ q > Len(s) THEN SyntaxError
      ELSE IF s[q] = 44 THEN ParseElements(s, q + 1, Append(acc, e.x))
      ELSE IF s[q] = 93 THEN Parsed(Arr(Append(acc, e.x)), q + 1)
      ELSE SyntaxError

\* The members of an object from p on (after "{" or ","), into the object o.
ParseMembers(s, p, o) ==
  LET q == SkipWs(s, p)
  IN  IF q > Len(s) \/ s[q] # 34 THEN SyntaxError
      ELSE LET key == ParseString(s, q + 1, <<>>)
               c == SkipWs(s, key.p)
           IN  IF ~key.ok \/ c > Len(s) \/ s[c] # 58 THEN SyntaxError
               ELSE LET val == ParseValue(s, c + 1)
                        r == SkipWs(s, val.p)
                    IN  IF ~val.ok \/ r > Len(s) THEN SyntaxError
                        ELSE IF s[r] = 44
                          THEN ParseMembers(s, r + 1, Set(o, key.x.v, val.x))
                        ELSE IF s[r] = 125
                          THEN Parsed(Set(o, key.x.v, val.x), r + 1)
                        ELSE SyntaxError

\* One JSON value from p on, after white space.
ParseValue(s, p) ==
  LET q == SkipWs(s, p)
  IN  IF q > Len(s) THEN SyntaxError
      ELSE IF s[q] = 123
        THEN IF SkipWs(s, q + 1) <= Len(s) /\ s[SkipWs(s, q + 1)] = 125
               THEN Parsed(Obj(<<>>), SkipWs(s, q + 1) + 1)
               ELSE ParseMembers(s, q + 1, Obj(<<>>))
      ELSE IF s[q] = 91
        THEN IF SkipWs(s, q + 1) <= Len(s) /\ s[SkipWs(s, q + 1)] = 93
               THEN Parsed(Arr(<<>>), SkipWs(s, q + 1) + 1)
               ELSE ParseElements(s, q + 1, <<>>)
      ELSE IF s[q] = 34 THEN ParseString(s, q + 1, <<>>)
      ELSE IF s[q] = 48
        THEN IF q + 1 <= Len(s) /\ IsDigit(s[q + 1]) THEN SyntaxError
             ELSE Parsed(Num(0), q + 1)
      ELSE IF IsDigit(s[q]) THEN ParseNumber(s, q, 0)
      ELSE SyntaxError

\* JSON.parse(text): one value, white space around it and nothing else; a
\* text that is no JSON throws a SyntaxError (ok = FALSE).
JSON_parse(text) ==
  LET r == ParseValue(text, 1)
  IN  IF r.ok /\ SkipWs(text, r.p) > Len(text) THEN r ELSE SyntaxError

(***************************************************************************)
(* The property names the codec reads and writes, as code points.           *)
(***************************************************************************)
\* "images"
K_images == << 105, 109, 97, 103, 101, 115 >>

\* "bufferViews"
K_bufferViews == << 98, 117, 102, 102, 101, 114, 86, 105, 101, 119, 115 >>

\* "buffers"
K_buffers == << 98, 117, 102, 102, 101, 114, 115 >>

\* "bufferView"
K_bufferView == << 98, 117, 102, 102, 101, 114, 86, 105, 101, 119 >>

\* "byteOffset"
K_byteOffset == << 98, 121, 116, 101, 79, 102, 102, 115, 101, 116 >>

\* "byteLength"
K_byteLength == << 98, 121, 116, 101, 76, 101, 110, 103, 116, 104 >>

\* "name"
K_name == << 110, 97, 109, 101 >>

\* "mimeType"
K_mimeType == << 109, 105, 109, 101, 84, 121, 112, 101 >>

\* "textures"
K_textures == << 116, 101, 120, 116, 117, 114, 101, 115 >>

\* "source"
K_source == << 115, 111, 117, 114, 99, 101 >>

\* "buffer"
K_buffer == << 98, 117, 102, 102, 101, 114 >>

\* "extensions"
K_extensions == << 101, 120, 116, 101, 110, 115, 105, 111, 110, 115 >>

\* "VRM"
K_VRM == << 86, 82, 77 >>

(***************************************************************************)
(* parseGlb (vrmService.ts 14-50).  The result is a record: ok with the    *)
(* json and bin returned, or the error thrown: the message of an Error of  *)
(* the code (a tuple, the version error carrying the version read), or the *)
(* name of the exception a platform call throws (RangeError for a read     *)
(* outside the buffer, SyntaxError for a text that is no JSON).            *)
(* iterations counts the rounds of the chunk loop.                         *)
(***************************************************************************)
MissingMagic == << "Invalid GLB file: Missing magic number." >>

UnsupportedVersion(version) ==
  << "Unsupported glTF version: ", version, ". Only version 2 is supported." >>

MissingChunk == << "Invalid GLB file: Missing JSON or BIN chunk." >>

RangeError == << "RangeError" >>

JsonSyntaxError == << "SyntaxError" >>

TypeError == << "TypeError" >>

Thrown(e, n) ==
  [ok |-> FALSE, error |-> e, json |-> Undefined, bin |-> <<>>, iterations |-> n]

Returned(json, bin, n) ==
  [ok |-> TRUE, error |-> <<>>, json |-> json, bin |-> bin, iterations |-> n]

\* new Uint8Array(arrayBuffer, offset, length) throws a RangeError when the
\* view does not fit the buffer.
ViewFits(buf, offset, length) == offset + length <= Len(buf)

\* ScanLimit as the total length that the header declares in bytes 8..11.
ScanLimitDeclared(buf) ==
  IF canGetUint32(buf, 8) THEN getUint32(buf, 8) ELSE Len(buf)

\* The bound of the chunk loop: arrayBuffer.byteLength, the actual length.
ScanLimit(buf) == Len(buf)

\* NextChunkOffset with a chunk header of one word: the offset advances by
\* 4 and the payload.
NextChunkOffsetOneWord(chunkOffset, chunkLength) == chunkOffset + 4 + chunkLength

\* Line 42: chunkOffset += CHUNK_HEADER_SIZE + chunkLength.
NextChunkOffset(chunkOffset, chunkLength) ==
  chunkOffset + CHUNK_HEADER_SIZE + chunkLength

RECURSIVE ScanChunks(_, _, _, _, _)
\* The while loop of lines 29-43 from chunkOffset on, with the json and bin
\* found so far (undefined, as a JSON value and as the flag hasBin, until a
\* chunk sets them), and then lines 45-49.
ScanChunks(buf, chunkOffset, json, bin, n) ==
  IF chunkOffset < ScanLimit(buf)
    THEN IF ~canGetUint32(buf, chunkOffset) \/ ~canGetUint32(buf, chunkOffset + 4)
           THEN Thrown(RangeError, n + 1)
         ELSE LET chunkLength == getUint32(buf, chunkOffset)
                  chunkType == getUint32(buf, chunkOffset + 4)
                  chunkDataOffset == chunkOffset + CHUNK_HEADER_SIZE
                  next == NextChunkOffset(chunkOffset, chunkLength)
              IN  IF chunkType = JSON_CHUNK_TYPE
                    THEN IF ~ViewFits(buf, chunkDataOffset, chunkLength)
                           THEN Thrown(RangeError, n + 1)
                         ELSE LET jsonBytes ==
                                    Range0(buf, chunkDataOffset,
                                           chunkDataOffset + chunkLength)
                                  r == JSON_parse(TextDecode(jsonBytes))
                              IN  IF ~r.ok THEN Thrown(JsonSyntaxError, n + 1)
                                  ELSE ScanChunks(buf, next, r.x, bin, n + 1)
                  ELSE IF chunkType = BIN_CHUNK_TYPE
                    THEN IF ~ViewFits(buf, chunkDataOffset, chunkLength)
                           THEN Thrown(RangeError, n + 1)
                         ELSE ScanChunks(buf, next, json,
                                [set |-> TRUE,
                                 bytes |-> Range0(buf, chunkDataOffset,
                                                  chunkDataOffset + chunkLength)],
                                n + 1)
                  ELSE ScanChunks(buf, next, json, bin, n + 1)
    ELSE IF Falsy(json) \/ ~bin.set
           THEN Thrown(MissingChunk, n)
           ELSE Returned(json, bin.bytes, n)

\* parseGlb with lines 20-23 before lines 16-19: the version is checked
\* before the magic.
parseGlbVersionFirst(arrayBuffer) ==
  IF ~canGetUint32(arrayBuffer, 4) THEN Thrown(RangeError, 0)
  ELSE IF getUint32(arrayBuffer, 4) # GLB_VERSION
    THEN Thrown(UnsupportedVersion(getUint32(arrayBuffer, 4)), 0)
  ELSE IF getUint32(arrayBuffer, 0) # GLB_MAGIC THEN Thrown(MissingMagic, 0)
  ELSE ScanChunks(arrayBuffer, GLB_HEADER_SIZE, Undefined,
                  [set |-> FALSE, bytes |-> <<>>], 0)

\* Lines 14-50.
parseGlb(arrayBuffer) ==
  IF ~canGetUint32(arrayBuffer, 0) THEN Thrown(RangeError, 0)
  ELSE IF getUint32(arrayBuffer, 0) # GLB_MAGIC THEN Thrown(MissingMagic, 0)
  ELSE IF ~canGetUint32(arrayBuffer, 4) THEN Thrown(RangeError, 0)
  ELSE IF getUint32(arrayBuffer, 4) # GLB_VERSION
    THEN Thrown(UnsupportedVersion(getUint32(arrayBuffer, 4)), 0)
  ELSE ScanChunks(arrayBuffer, GLB_HEADER_SIZE, Undefined,
                  [set |-> FALSE, bytes |-> <<>>], 0)

(***************************************************************************)
(* rebuildGlb (vrmService.ts 136-220).  resizedImages is a function from   *)
(* the image indexes that have an entry to [data, mimeType].               *)
(***************************************************************************)
\* CloneJson as an assignment, newJson = originalJson: the copy is the
\* caller's own tree.
CloneJsonByReference(originalJson) ==
  [x |-> originalJson, shared |-> TRUE]

\* Line 141, JSON.parse(JSON.stringify(originalJson)): a new tree that
\* shares no object with the original (shared = FALSE), so that a write to
\* the copy is not a write to the caller's document.
CloneJson(originalJson) ==
  [x |-> JSON_parse(JSON_stringify(originalJson)).x, shared |-> FALSE]

\* The map of lines 145-148 filled only where it has no entry yet: the
\* first image that names bufferView i; -1 for undefined.
BufferViewToFirstImageIndex(images, i) ==
  LET owners == { k \in 0..(Length(images) - 1) :
                    Get(At(images, k), K_bufferView) = Num(i) }
  IN  IF owners = {} THEN -1 ELSE CHOOSE k \in owners : \A o \in owners : k <= o

\* Lines 145-148: the image index the forEach leaves in the map for
\* bufferView i, the last image that names it; -1 for undefined.
BufferViewToImageIndex(images, i) ==
  LET owners == { k \in 0..(Length(images) - 1) :
                    Get(At(images, k), K_bufferView) = Num(i) }
  IN  IF owners = {} THEN -1 ELSE CHOOSE k \in owners : \A o \in owners : o <= k

\* BufferViewData with the replacement looked up under the index of the
\* bufferView instead of the index of its image.
BufferViewDataByViewIndex(images, bv, i, originalBin, resizedImages) ==
  IF i \in DOMAIN resizedImages
    THEN resizedImages[i].data
    ELSE slice(originalBin,
               ToIndex(Get(bv, K_byteOffset)),
               ToIndex(Plus(Get(bv, K_byteOffset), Get(bv, K_byteLength))))

\* Lines 153-161: the data of bufferView i, the replacement of its image
\* or its range of the original raw block.
BufferViewData(images, bv, i, originalBin, resizedImages) ==
  LET imageIndex == BufferViewToImageIndex(images, i)
  IN  IF imageIndex # -1 /\ imageIndex \in DOMAIN resizedImages
        THEN resizedImages[imageIndex].data
        ELSE slice(originalBin,
                   ToIndex(Get(bv, K_byteOffset)),
                   ToIndex(Plus(Get(bv, K_byteOffset), Get(bv, K_byteLength))))

\* Reoffset without line 169: the new length is written, the offset is left
\* as the input had it.
ReoffsetKeepingOffset(bv, datas, i) ==
  Set(bv, K_byteLength, Num(Len(datas[i + 1])))

\* Lines 169-170 as the assignment of a new object to bufferViews[i]: the
\* other properties of the bufferView are gone.
ReoffsetAsNewObject(bv, datas, i) ==
  Obj(<< [k |-> K_byteOffset, v |-> Num(SumLen(datas, i))],
         [k |-> K_byteLength, v |-> Num(Len(datas[i + 1]))] >>)

\* Lines 169-170: bufferView number i (0-based) with its new offset, the
\* lengths of the data before it, and its new length.
Reoffset(bv, datas, i) ==
  Set(Set(bv, K_byteOffset, Num(SumLen(datas, i))), K_byteLength, Num(Len(datas[i + 1])))

\* Line 186: the spaces that pad the JSON text.
JsonPadding(jsonString) == (4 - (StringLength(jsonString) % 4)) % 4

\* Line 191: the zero bytes that pad the raw block.
BinPadding(newBin) == (4 - (Len(newBin) % 4)) % 4

\* FinalBuffer with a total length that leaves out the two chunk headers.
FinalBufferShortTotal(jsonBytes, finalBin) ==
  LET totalLength == GLB_HEADER_SIZE + Len(jsonBytes) + Len(finalBin)
  IN  setUint32(GLB_MAGIC) \o setUint32(GLB_VERSION) \o setUint32(totalLength)
      \o setUint32(Len(jsonBytes)) \o setUint32(JSON_CHUNK_TYPE) \o jsonBytes
      \o setUint32(Len(finalBin)) \o setUint32(BIN_CHUNK_TYPE) \o finalBin

\* Lines 195-219: the header and the two chunks.
FinalBuffer(jsonBytes, finalBin) ==
  LET totalLength ==
        GLB_HEADER_SIZE + (CHUNK_HEADER_SIZE + Len(jsonBytes))
          + (CHUNK_HEADER_SIZE + Len(finalBin))
  IN  setUint32(GLB_MAGIC) \o setUint32(GLB_VERSION) \o setUint32(totalLength)
      \o setUint32(Len(jsonBytes)) \o setUint32(JSON_CHUNK_TYPE) \o jsonBytes
      \o setUint32(Len(finalBin)) \o setUint32(BIN_CHUNK_TYPE) \o finalBin

\* Lines 184-219: the buffer for the final document and the new raw block.
Serialize(final, newBin) ==
  Bind(JSON_stringify(final), LAMBDA jsonString :
    FinalBuffer(TextEncode(jsonString \o Repeat(32, JsonPadding(jsonString))),
                newBin \o Repeat(0, BinPadding(newBin))))

\* The result of a call: the buffer returned (ok), or the exception; json is
\* the copy newJson as the call left it, and caller is the caller's document
\* after the call: untouched unless the copy shares its objects.
Rebuilt(ok, error, buffer, newJson, clone, originalJson) ==
  [ok |-> ok, error |-> error, buffer |-> buffer, json |-> newJson,
   caller |-> IF clone.shared THEN newJson ELSE originalJson]

\* Lines 164-219, for the copy and the data of every bufferView.
Reconstruct(clone, datas, originalJson) ==
  LET newJson == clone.x
      bufferViews == Get(newJson, K_bufferViews)
      buffers == Get(newJson, K_buffers)
      n == Length(bufferViews)
  IN  Bind(Set(newJson, K_bufferViews,
               Arr([k \in 1..n |-> Reoffset(At(bufferViews, k - 1), datas, k - 1)])),
           LAMBDA written :
             IF ~IsArr(buffers) \/ ~IsObj(At(buffers, 0))
               \* line 175 throws, after the writes of lines 169-170
               THEN Rebuilt(FALSE, TypeError, <<>>, written, clone, originalJson)
               ELSE Bind(Set(written, K_buffers,
                             SetAt(buffers, 0,
                                   Set(At(buffers, 0), K_byteLength,
                                       Num(SumLen(datas, n))))),
                         LAMBDA final :
                           Rebuilt(TRUE, <<>>, Serialize(final, Concat(datas, n)),
                                   final, clone, originalJson)))

rebuildGlb(originalJson, originalBin, resizedImages) ==
  Bind(CloneJson(originalJson), LAMBDA clone :
    LET newJson == clone.x
        images == Get(newJson, K_images)
        bufferViews == Get(newJson, K_bufferViews)
    IN  IF ~IsArr(images) \/ ~IsArr(bufferViews)
          \* line 146 (images.forEach) or line 151 (bufferViews.length) throws
          THEN Rebuilt(FALSE, TypeError, <<>>, newJson, clone, originalJson)
          ELSE Bind([k \in 1..Length(bufferViews) |->
                       BufferViewData(images, At(bufferViews, k - 1), k - 1,
                                      originalBin, resizedImages)] \o <<>>,
                    LAMBDA datas : Reconstruct(clone, datas, originalJson)))

(***************************************************************************)
(* extractTextures (vrmService.ts 55-84) and getImageDimensions (86-93).   *)
(* The function is asynchronous: it runs to the await of line 68, where it *)
(* waits for the browser to decode the blob, and goes on from there when   *)
(* the image has loaded.  A run is a record: status "returned" with the    *)
(* list textureInfos, "threw" with the error, or "awaiting" the decode of  *)
(* image i, whose blob holds data.                                         *)
(***************************************************************************)
\* What img.onerror passes to reject: an Event, which has no message.
DecodeError == << "undefined" >>

\* a || b
OrElse(a, b) == IF Falsy(a) THEN b ELSE a

\* Line 57 with its guard on the images only.
ExtractIsEmptyImagesOnly(json) == Falsy(Get(json, K_images))

\* Line 57: !images || !bufferViews.
ExtractIsEmpty(json) ==
  Falsy(Get(json, K_images)) \/ Falsy(Get(json, K_bufferViews))

\* images.length as the loop of line 61 reads it: no round for a value
\* that is no array.
ImagesLength(json) ==
  IF IsArr(Get(json, K_images)) THEN Length(Get(json, K_images)) ELSE 0

\* Line 63: bufferViews[image.bufferView], undefined for an index that is
\* absent or outside the array.
BufferViewOf(json, i) ==
  LET index == Get(At(Get(json, K_images), i), K_bufferView)
  IN  IF index.t = "num" THEN At(Get(json, K_bufferViews), index.v) ELSE Undefined

\* Line 64: bin.slice(byteOffset, byteOffset + byteLength).
ImageData(json, bin, i) ==
  LET bufferView == BufferViewOf(json, i)
  IN  slice(bin,
            ToIndex(Get(bufferView, K_byteOffset)),
            ToIndex(Plus(Get(bufferView, K_byteOffset), Get(bufferView, K_byteLength))))

\* textures.find(t => t.source === i): the 0-based position of the first
\* entry whose source is i, -1 when there is none or no textures.
FindSource(textures, i) ==
  LET found == { k \in 0..(IF IsArr(textures) THEN Length(textures) - 1 ELSE -1) :
                   Get(At(textures, k), K_source) = Num(i) }
  IN  IF found = {} THEN -1 ELSE CHOOSE k \in found : \A o \in found : k <= o

\* "Texture i"
DefaultName(i) == Str(<< 84, 101, 120, 116, 117, 114, 101, 32 >> \o Digits(i))

\* TextureName with the name of the image preferred to the texture's.
TextureNameImageFirst(json, i) ==
  LET textures == Get(json, K_textures)
      k == FindSource(textures, i)
      ofTexture == IF k = -1 THEN Undefined ELSE Get(At(textures, k), K_name)
  IN  OrElse(OrElse(Get(At(Get(json, K_images), i), K_name), ofTexture), DefaultName(i))

\* Lines 70 and 74: textures?.find(...)?.name || image.name, and after it
\* || `Texture ${i}`.
TextureName(json, i) ==
  LET textures == Get(json, K_textures)
      k == FindSource(textures, i)
      ofTexture == IF k = -1 THEN Undefined ELSE Get(At(textures, k), K_name)
  IN  OrElse(OrElse(ofTexture, Get(At(Get(json, K_images), i), K_name)), DefaultName(i))

\* Lines 72-80: the handle of image i, whose blob has the URL blobUrl and
\* decoded to size.
TextureInfo(json, i, size, blobUrl) ==
  [index |-> i,
   name |-> TextureName(json, i),
   originalWidth |-> size.width,
   originalHeight |-> size.height,
   blobUrl |-> blobUrl,
   mimeType |-> Get(At(Get(json, K_images), i), K_mimeType),
   bufferViewIndex |-> Get(At(Get(json, K_images), i), K_bufferView),
   isReplaced |-> FALSE]

\* textureInfos.unshift(info)
UnshiftTextureInfo(textureInfos, info) == << info >> \o textureInfos

\* Line 72: textureInfos.push(info).
PushTextureInfo(textureInfos, info) == Append(textureInfos, info)

ExtractReturned(textureInfos) ==
  [status |-> "returned", i |-> 0, textureInfos |-> textureInfos, data |-> << >>,
   error |-> << >>]

ExtractThrew(e) ==
  [status |-> "threw", i |-> 0, textureInfos |-> << >>, data |-> << >>, error |-> e]

ExtractAwaiting(i, textureInfos, data) ==
  [status |-> "awaiting", i |-> i, textureInfos |-> textureInfos, data |-> data,
   error |-> << >>]

\* Lines 61-68 from round i on: the loop ends and line 83 returns the list,
\* or line 64 throws on a bufferView that does not exist, or the round
\* makes the blob of the slice and waits for its decode.
ExtractLoop(json, bin, i, textureInfos) ==
  IF i >= ImagesLength(json) THEN ExtractReturned(textureInfos)
  ELSE IF BufferViewOf(json, i).t = "undef" THEN ExtractThrew(TypeError)
  ELSE ExtractAwaiting(i, textureInfos, ImageData(json, bin, i))

\* The start of a call, lines 56-68.
extractTextures(json, bin) ==
  IF ExtractIsEmpty(json) THEN ExtractReturned(<< >>)
  ELSE ExtractLoop(json, bin, 0, << >>)

\* The decode failed and the loop went on without the image.
OnDecodeErrorSkipping(json, bin, i, textureInfos) ==
  ExtractLoop(json, bin, i + 1, textureInfos)

\* Lines 91 and 68: img.onerror rejects the promise the loop awaits, and
\* the call throws what it was rejected with.
OnDecodeError(json, bin, i, textureInfos) == ExtractThrew(DecodeError)

\* Lines 89 and 68-81: img.onload resolves with the size, the handle is
\* pushed and the loop goes on.
OnDecodeLoad(json, bin, i, textureInfos, size, blobUrl) ==
  ExtractLoop(json, bin, i + 1,
              PushTextureInfo(textureInfos, TextureInfo(json, i, size, blobUrl)))

(***************************************************************************)
(* The inputs: containers as a file holds them, built from a structural    *)
(* document and a raw block, and replacement maps.                         *)
(***************************************************************************)
\* The most bufferViews and the most images of a document.
MaxViews == 2

MaxImages == 2

\* The raw block of an input container: every byte differs.
RawBlock == << 11, 12, 13, 14 >>

\* The ranges << byteOffset, byteLength >> an input bufferView declares:
\* ranges that touch (<< 0, 2 >> and << 2, 2 >>), that overlap (<< 2, 2 >>
\* and << 3, 2 >>) or leave a gap (<< 0, 2 >> and << 3, 2 >>), and
\* << 3, 2 >>, which leaves the raw block.
Ranges == { << 0, 2 >>, << 2, 2 >>, << 3, 2 >> }

\* An empty range beside one with bytes.
EmptyRanges == { << 0, 0 >>, << 0, 2 >> }

\* The ranges of the documents that vary something else.
PlainRanges == { << 0, 1 >> }

\* The replacement payload for image i: 1 + 2 * i bytes (shorter and
\* longer than the ranges they replace) that differ from the raw block's
\* and from the other images' payloads.
Payload(i) == [k \in 1..(1 + 2 * i) |-> 100 + 20 * i + k]

\* The names an image may carry: "H", U+00E9 (two bytes in UTF-8) and
\* U+1F600 (four bytes in UTF-8, two code units in UTF-16); NoName stands
\* for an image without the name property.
NoName == << >>

ImageNames == { NoName, << 72 >>, << 233 >>, << 128512 >> }

View(off, len) ==
  Obj(<< [k |-> K_byteOffset, v |-> Num(off)], [k |-> K_byteLength, v |-> Num(len)] >>)

Image(view, name) ==
  IF name = NoName THEN Obj(<< [k |-> K_bufferView, v |-> Num(view)] >>)
  ELSE Obj(<< [k |-> K_bufferView, v |-> Num(view)], [k |-> K_name, v |-> Str(name)] >>)

\* The lists of at most MaxViews ranges.
ViewLists(ranges) == UNION { [1..n -> ranges] : n \in 0..MaxViews }

\* The lists of at most MaxImages images over n bufferViews: each names a
\* bufferView that exists.
ImageLists(n) == UNION { [1..k -> 0..(n - 1)] : k \in 0..MaxImages }

\* The document with these ranges and images; name is the name of image 0.
\* shape "full" is a StructuralDocument; "no-images" has no images
\* property and "no-buffers" an empty buffers array.
Document(views, imgs, name, shape) ==
  LET images == Arr([k \in 1..Len(imgs) |->
                       Image(imgs[k], IF k = 1 THEN name ELSE NoName)])
      bufferViews == Arr([k \in 1..Len(views) |-> View(views[k][1], views[k][2])])
      buffers == IF shape = "no-buffers" THEN Arr(<<>>)
                 ELSE Arr(<< Obj(<< [k |-> K_byteLength, v |-> Num(Len(RawBlock))] >>) >>)
  IN  Obj((IF shape = "no-images" THEN <<>> ELSE << [k |-> K_images, v |-> images] >>)
          \o << [k |-> K_bufferViews, v |-> bufferViews],
                [k |-> K_buffers, v |-> buffers] >>)

\* The documents over the lists of the given ranges.
DocumentsOver(ranges, names, shape) ==
  UNION { UNION { { Document(views, imgs, name, shape) :
                      name \in IF Len(imgs) = 0 THEN { NoName } ELSE names } :
                  imgs \in ImageLists(Len(views)) } :
          views \in ViewLists(ranges) }

\* "image/jpeg"
ImageJpeg == << 105, 109, 97, 103, 101, 47, 106, 112, 101, 103 >>

\* The document with what an exporter writes besides: the buffer of every
\* bufferView, the mimeType of every image, a texture and an extension.
Rich(document) ==
  LET images == Get(document, K_images)
      bufferViews == Get(document, K_bufferViews)
      typed == Arr([k \in 1..Length(images) |->
                      Set(images.v[k], K_mimeType, Str(ImageJpeg))])
      housed == Arr([k \in 1..Length(bufferViews) |->
                       Set(bufferViews.v[k], K_buffer, Num(0))])
      texture == Obj(<< [k |-> K_source, v |-> Num(0)] >>)
      extensions == Obj(<< [k |-> K_VRM, v |-> Obj(<< >>)] >>)
  IN  Set(Set(Set(Set(document, K_images, typed), K_bufferViews, housed),
              K_textures, Arr(<< texture >>)),
          K_extensions, extensions)

\* Two such documents: two images on two bufferViews, and one image on
\* the second of two bufferViews.
RichDocuments ==
  { Rich(Document(<< << 0, 2 >>, << 2, 2 >> >>, imgs, NoName, "full")) :
      imgs \in { << 0, 1 >>, << 1 >> } }

\* The input documents: every list of ranges with every list of unnamed
\* images; the same with empty ranges; over the plain ranges, the named
\* images and the documents that lack the images property or the buffer;
\* and the documents with more properties.
Documents ==
  RichDocuments
    \cup DocumentsOver(Ranges, { NoName }, "full")
    \cup DocumentsOver(EmptyRanges, { NoName }, "full")
    \cup DocumentsOver(PlainRanges, ImageNames, "full")
    \cup DocumentsOver(PlainRanges, { NoName }, "no-images")
    \cup DocumentsOver(PlainRanges, { NoName }, "no-buffers")

\* The replacement maps: the payloads of any set of image indexes.
ReplacementMaps ==
  { [i \in keys |-> [data |-> Payload(i), mimeType |-> "image/png"]] :
      keys \in SUBSET (0..(MaxImages - 1)) }

\* One chunk as a file holds it: the declared length, the type, the payload.
Chunk(declared, type, payload) == setUint32(declared) \o setUint32(type) \o payload

\* The JSON chunk of a document as an exporter writes it: the UTF-8 text,
\* padded with spaces to a multiple of 4 bytes.
JsonChunk(document) ==
  LET bytes == TextEncode(JSON_stringify(document))
      padded == bytes \o Repeat(32, (4 - (Len(bytes) % 4)) % 4)
  IN  Chunk(Len(padded), JSON_CHUNK_TYPE, padded)

\* The BIN chunk of a raw block.
BinChunk(raw) == Chunk(Len(raw), BIN_CHUNK_TYPE, raw)

\* A chunk of a type the parser does not know, with a two-byte payload.
OtherChunk == Chunk(2, 1, << 7, 7 >>)

\* The 12-byte header.
Header(magic, version, declared) ==
  setUint32(magic) \o setUint32(version) \o setUint32(declared)

\* A container: the header, declaring the actual total length, and chunks.
Container(chunks) ==
  Header(GLB_MAGIC, GLB_VERSION, GLB_HEADER_SIZE + Len(chunks)) \o chunks

(***************************************************************************)
(* The state: a file is loaded (parseGlb), rebuilt with a replacement map  *)
(* (rebuildGlb) and the result loaded again (parseGlb).                    *)
(***************************************************************************)
VARIABLES
  pc,             \* "loaded", "parsed", "rebuilt", "reparsed", "failed", ...
  arrayBuffer,    \* the bytes of the file
  parsed,         \* the result of parseGlb(arrayBuffer)
  originalJson,   \* the caller's structural document (vrmData.json)
  originalBin,    \* the caller's raw block (vrmData.bin)
  resizedImages,  \* the caller's replacement map
  rebuilt,        \* the result of rebuildGlb
  reparsed,       \* the result of parseGlb on the rebuilt buffer
  rebuiltAgain,   \* the result of a second rebuildGlb with the same arguments
  chunks,         \* the chunks that the file was made of, each as its bytes
  variant,        \* a second file, made from the first: how, and its bytes
  variantParsed,  \* the result of parseGlb on the second file
  vrmData,        \* App state vrmData: null (set = FALSE) or { json, bin }
  vrmPreviewBuffer, \* App state vrmPreviewBuffer: null or the bytes to preview
  textures,       \* App state textures: the list of handles (TextureInfo)
  resizeOptions,  \* App state resizeOptions: a map from texture index to size
  isLoading,      \* App state isLoading
  error,          \* App state error: null (<< >>) or the message
  hasFinishedInitialLoad,   \* App state hasFinishedInitialLoad
  isInitialUploadLoading,   \* App state isInitialUploadLoading
  blobs,          \* the object URLs ever created: the bytes and whether revoked
  calls,          \* the calls of the asynchronous handlers, in flight or ended
  files,          \* the files the user can choose from
  resizing        \* a call of resizeImage: the image, newSize and the canvas

\* The state of the component App and of the browser around it.
appVars ==
  << vrmData, vrmPreviewBuffer, textures, resizeOptions, isLoading, error,
     hasFinishedInitialLoad, isInitialUploadLoading, blobs, calls, files >>

\* The state of the calls of the service made one after the other.
serviceVars ==
  << pc, parsed, originalJson, originalBin, resizedImages, rebuilt, reparsed,
     rebuiltAgain, chunks, variant, variantParsed, resizing >>

vars ==
  << pc, arrayBuffer, parsed, originalJson, originalBin, resizedImages, rebuilt,
     reparsed, rebuiltAgain, chunks, variant, variantParsed, vrmData,
     vrmPreviewBuffer, textures, resizeOptions, isLoading, error,
     hasFinishedInitialLoad, isInitialUploadLoading, blobs, calls, files,
     resizing >>

\* null, for vrmData and for vrmPreviewBuffer.
NoData == [set |-> FALSE, json |-> Undefined, bin |-> << >>]

NoBuffer == [set |-> FALSE, bytes |-> << >>]

\* No call of resizeImage.
NoResize ==
  [phase |-> "none", img |-> [width |-> 0, height |-> 0], newSize |-> 0,
   canvas |-> [width |-> 0, height |-> 0]]

\* The useState initial values of lines 482-490, no object URL and no call.
UseStateStart ==
  /\ vrmData = NoData
  /\ vrmPreviewBuffer = NoBuffer
  /\ textures = << >>
  /\ resizeOptions = << >>
  /\ isLoading = FALSE
  /\ error = << >>
  /\ hasFinishedInitialLoad = FALSE
  /\ isInitialUploadLoading = FALSE
  /\ blobs = << >>
  /\ calls = << >>

\* The component as it starts, and no image being resized.
AppStart == UseStateStart /\ resizing = NoResize

\* The component as it starts, with no file to choose.
AppInit == AppStart /\ files = << >>

NoParse == Thrown(<<>>, 0)

NoVariant == [relation |-> "none", inserted |-> FALSE, buffer |-> <<>>]

NoRebuild == [ok |-> FALSE, error |-> <<>>, buffer |-> <<>>, json |-> Undefined,
              caller |-> Undefined]

Init ==
  \E document \in Documents :
    /\ pc = "loaded"
    /\ chunks = << JsonChunk(document), BinChunk(RawBlock) >>
    /\ arrayBuffer = Container(JsonChunk(document) \o BinChunk(RawBlock))
    /\ parsed = NoParse
    /\ originalJson = Undefined
    /\ originalBin = <<>>
    /\ resizedImages = << >>
    /\ rebuilt = NoRebuild
    /\ reparsed = NoParse
    /\ rebuiltAgain = NoRebuild
    /\ variant = NoVariant
    /\ variantParsed = NoParse
    /\ AppInit

\* const { json, bin } = parseGlb(arrayBuffer); setVrmData({ json, bin })
Parse ==
  /\ pc = "loaded"
  /\ LET r == parseGlb(arrayBuffer)
     IN  /\ parsed' = r
         /\ originalJson' = r.json
         /\ originalBin' = r.bin
         /\ pc' = IF r.ok THEN "parsed" ELSE "failed"
  /\ UNCHANGED << arrayBuffer, resizedImages, rebuilt, reparsed, rebuiltAgain,
                  chunks, variant, variantParsed >>
  /\ UNCHANGED << appVars, resizing >>

\* rebuildGlb(vrmData.json, vrmData.bin, map) for a replacement map: the
\* caller's document after the call is what the call left of it.
Rebuild ==
  /\ pc = "parsed"
  /\ \E map \in ReplacementMaps :
       LET r == rebuildGlb(originalJson, originalBin, map)
       IN  /\ resizedImages' = map
           /\ rebuilt' = r
           /\ originalJson' = r.caller
  /\ pc' = "rebuilt"
  /\ UNCHANGED << arrayBuffer, parsed, originalBin, reparsed, rebuiltAgain,
                  chunks, variant, variantParsed >>
  /\ UNCHANGED << appVars, resizing >>

\* The round trip: parseGlb on the buffer that rebuildGlb returned for the
\* empty replacement map.
Reparse ==
  /\ pc = "rebuilt"
  /\ rebuilt.ok
  /\ DOMAIN resizedImages = {}
  /\ reparsed' = parseGlb(rebuilt.buffer)
  /\ pc' = "reparsed"
  /\ UNCHANGED << arrayBuffer, parsed, originalJson, originalBin, resizedImages,
                  rebuilt, rebuiltAgain, chunks, variant, variantParsed >>
  /\ UNCHANGED << appVars, resizing >>

\* rebuildGlb called a second time with the document, the raw block and the
\* empty map of the first call, as a second Apply without changes would.
RebuildAgain ==
  /\ pc = "rebuilt"
  /\ DOMAIN resizedImages = {}
  /\ LET r == rebuildGlb(originalJson, originalBin, resizedImages)
     IN  /\ rebuiltAgain' = r
         /\ originalJson' = r.caller
  /\ pc' = "rebuilt twice"
  /\ UNCHANGED << arrayBuffer, parsed, originalBin, resizedImages, rebuilt,
                  reparsed, chunks, variant, variantParsed >>
  /\ UNCHANGED << appVars, resizing >>

Next == Parse \/ Rebuild \/ Reparse \/ RebuildAgain

Spec == Init /\ [][Next]_vars

(***************************************************************************)
(* parseGlb on files of every make: a header with a right or wrong magic   *)
(* and version, chunks of the three kinds in any order, a file cut short;  *)
(* and on a second file made from the first by moving or adding a chunk or *)
(* by another declared total length.                                       *)
(***************************************************************************)
\* The most chunks of a file.
MaxChunks == 3

\* The document of the JSON chunk of these files.
SampleDocument == Document(<< << 0, 2 >> >>, << 0 >>, << 72 >>, "full")

\* A chunk of a type the parser does not know that declares the length 0:
\* a chunk header and no payload.
EmptyChunk == Chunk(0, 1, << >>)

ChunkKinds ==
  { JsonChunk(SampleDocument), BinChunk(RawBlock), OtherChunk, EmptyChunk }

ChunkLists == UNION { [1..n -> ChunkKinds] : n \in 0..MaxChunks }

\* The bytes left after the last complete chunk of a file cut short.
Trailing == { 0, 3, 7 }

TypeOf(chunk) == getUint32(chunk, 4)

\* The file with this header, these chunks and trailing bytes; the header
\* declares the actual length.
File(magic, version, list, trailing) ==
  LET body == Concat(list, Len(list)) \o Repeat(0, trailing)
  IN  Header(magic, version, GLB_HEADER_SIZE + Len(body)) \o body

\* The list with the chunks at positions a and b exchanged.
Exchanged(list, a, b) ==
  [k \in 1..Len(list) |-> IF k = a THEN list[b] ELSE IF k = b THEN list[a] ELSE list[k]]

\* The list with a chunk added after its first p chunks.
Inserted(list, p, chunk) ==
  SubSeq(list, 1, p) \o << chunk >> \o SubSeq(list, p + 1, Len(list))

\* The total lengths a header may declare for a file of n bytes.
Declared(n) == { 0, GLB_HEADER_SIZE, n - 1, n, n + CHUNK_HEADER_SIZE }

\* The second files made from the file loaded: its chunks with the JSON and
\* the BIN chunk exchanged, or with a chunk of another type added, or both;
\* or the same bytes with another total length declared in bytes 8..11.
Variants ==
  LET jsons == { a \in 1..Len(chunks) : TypeOf(chunks[a]) = JSON_CHUNK_TYPE }
      bins == { b \in 1..Len(chunks) : TypeOf(chunks[b]) = BIN_CHUNK_TYPE }
      orders == { [exchanged |-> FALSE, list |-> chunks] }
                  \cup { [exchanged |-> TRUE, list |-> Exchanged(chunks, a, b)] :
                           a \in jsons, b \in bins }
  IN  { [relation |-> IF o.exchanged THEN "exchanged" ELSE "same order",
         inserted |-> FALSE,
         buffer |-> File(GLB_MAGIC, GLB_VERSION, o.list, 0)] :
          o \in { o \in orders : o.exchanged } }
        \cup { [relation |-> IF o.exchanged THEN "exchanged" ELSE "same order",
                inserted |-> TRUE,
                buffer |-> File(GLB_MAGIC, GLB_VERSION,
                                Inserted(o.list, p, OtherChunk), 0)] :
                 o \in orders, p \in 0..Len(chunks) }
        \cup { [relation |-> "declared",
                inserted |-> FALSE,
                buffer |-> SubSeq(arrayBuffer, 1, 8) \o setUint32(d)
                             \o SubSeq(arrayBuffer, 13, Len(arrayBuffer))] :
                 d \in IF Len(arrayBuffer) >= GLB_HEADER_SIZE
                         THEN Declared(Len(arrayBuffer)) ELSE {} }

InitParse ==
  /\ pc = "loaded"
  /\ \E list \in ChunkLists, magic \in { GLB_MAGIC, 0 }, version \in { GLB_VERSION, 1 },
        trailing \in Trailing, cut \in { 0, 3, 4, 7, 8, 11, 12 } :
       /\ chunks = list
       /\ arrayBuffer =
            IF cut < GLB_HEADER_SIZE
              THEN SubSeq(File(magic, version, << >>, 0), 1, cut)
              ELSE File(magic, version, list, trailing)
       /\ cut < GLB_HEADER_SIZE => list = << >> /\ trailing = 0
  /\ parsed = NoParse
  /\ originalJson = Undefined
  /\ originalBin = <<>>
  /\ resizedImages = << >>
  /\ rebuilt = NoRebuild
  /\ reparsed = NoParse
  /\ rebuiltAgain = NoRebuild
  /\ variant = NoVariant
  /\ variantParsed = NoParse
  /\ AppInit

\* Another file is chosen and parsed: parseGlb(arrayBuffer) of a second
\* file, made from the first.
ParseVariant ==
  /\ pc \in { "parsed", "failed" }
  /\ \E v \in Variants :
       /\ variant' = v
       /\ variantParsed' = parseGlb(v.buffer)
  /\ pc' = "compared"
  /\ UNCHANGED << arrayBuffer, parsed, originalJson, originalBin, resizedImages,
                  rebuilt, reparsed, rebuiltAgain, chunks >>
  /\ UNCHANGED << appVars, resizing >>

NextParse == Parse \/ ParseVariant

SpecParse == InitParse /\ [][NextParse]_vars

(***************************************************************************)
(* The component App (App.tsx 481-834).  An asynchronous handler runs from *)
(* one await to the next without interruption; between two of its steps    *)
(* the user may act and other handlers may run.  calls holds one record    *)
(* for each call of such a handler: what it closed over when it was        *)
(* called, its local variables, and the phase it has reached.              *)
(***************************************************************************)
\* The most calls of the asynchronous handlers in one session, and the
\* most uploads among them.
MaxCalls == 3

MaxUploads == 2

\* The calls of handleFileChange so far.
Uploads == { c \in 1..Len(calls) : calls[c].kind = "upload" }

\* The sizes an image may decode to: wider than tall, and taller than wide.
ImageSizes == { [width |-> 2, height |-> 1], [width |-> 1, height |-> 2] }

\* The size the images of the session decode to.
SessionSizes == { [width |-> 2, height |-> 1] }

\* The state of the component and the object URLs, as one record.
App ==
  [vrmData |-> vrmData,
   vrmPreviewBuffer |-> vrmPreviewBuffer,
   textures |-> textures,
   resizeOptions |-> resizeOptions,
   isLoading |-> isLoading,
   error |-> error,
   hasFinishedInitialLoad |-> hasFinishedInitialLoad,
   isInitialUploadLoading |-> isInitialUploadLoading,
   blobs |-> blobs]

\* The next state of the component is st.
Commit(st) ==
  /\ vrmData' = st.vrmData
  /\ vrmPreviewBuffer' = st.vrmPreviewBuffer
  /\ textures' = st.textures
  /\ resizeOptions' = st.resizeOptions
  /\ isLoading' = st.isLoading
  /\ error' = st.error
  /\ hasFinishedInitialLoad' = st.hasFinishedInitialLoad
  /\ isInitialUploadLoading' = st.isInitialUploadLoading
  /\ blobs' = st.blobs

\* URL.createObjectURL: the URL of a new object is its place in the store.
\* decode tells what became of the image load that followed: "pending",
\* "loaded" or "failed".
CreateObjectURL(store, data) ==
  Append(store, [data |-> data, revoked |-> FALSE, decode |-> "pending"])

\* The browser has settled the image load of url.
Decoded(st, url, outcome) == [st EXCEPT !.blobs[url].decode = outcome]

\* URL.revokeObjectURL for each of urls.
RevokeObjectURL(store, urls) ==
  [u \in 1..Len(store) |->
     IF u \in urls THEN [store[u] EXCEPT !.revoked = TRUE] ELSE store[u]]

\* The blobUrl of every handle of a list.
UrlsOf(list) == { list[k].blobUrl : k \in 1..Len(list) }

\* Line 781: the model sections are shown, and the upload prompt is not.
showModelSections == hasFinishedInitialLoad /\ ~isInitialUploadLoading

\* Lines 506-519: resetState, called with the textures it closed over.
resetState(st, closure) ==
  [st EXCEPT !.blobs = RevokeObjectURL(@, UrlsOf(closure)),
             !.vrmData = NoData,
             !.vrmPreviewBuffer = NoBuffer,
             !.textures = << >>,
             !.resizeOptions = << >>,
             !.isLoading = FALSE,
             !.error = << >>,
             !.hasFinishedInitialLoad = FALSE,
             !.isInitialUploadLoading = FALSE]

\* Line 526.
InvalidFileType == << "Invalid file type. Please upload a .vrm file." >>

\* Line 549.
FailedToProcess(e) == << "Failed to process VRM file: " >> \o e

\* Lines 530-535 of handleFileChange.
HandleFileChangeStart(st, closure) ==
  [resetState(st, closure) EXCEPT !.isInitialUploadLoading = TRUE,
                                  !.isLoading = TRUE,
                                  !.error = << >>]

\* Lines 545-546 and 552-554 of handleFileChange: the list is stored.
HandleFileChangeThen(st, extracted) ==
  [st EXCEPT !.textures = extracted,
             !.hasFinishedInitialLoad = TRUE,
             !.isLoading = FALSE,
             !.isInitialUploadLoading = FALSE]

\* Lines 548-554 of handleFileChange: the catch and the finally.
HandleFileChangeCatch(st, e, closure) ==
  [resetState([st EXCEPT !.error = FailedToProcess(e)], closure)
     EXCEPT !.isLoading = FALSE, !.isInitialUploadLoading = FALSE]

\* A call of handleFileChange for file f, at the await of line 538.
UploadCall(f, closure) ==
  [kind |-> "upload", phase |-> "reading", file |-> f, closure |-> closure,
   json |-> Undefined, bin |-> << >>, i |-> 0, textureInfos |-> << >>, url |-> 0,
   error |-> << >>, options |-> << >>, pending |-> {}, imagesToProcess |-> << >>,
   reset |-> FALSE, invoked |-> FALSE]

\* The component and the call after extractTextures reached ext: the call
\* waits for a decode, or it stored the list, or it caught the error.  A
\* call that is over holds nothing it closed over.
UploadSettle(st, call, ext) ==
  CASE ext.status = "awaiting" ->
         [app |-> [st EXCEPT !.blobs = CreateObjectURL(@, ext.data)],
          call |-> [call EXCEPT !.phase = "decoding", !.i = ext.i,
                                !.textureInfos = ext.textureInfos,
                                !.url = Len(st.blobs) + 1]]
    [] ext.status = "returned" ->
         [app |-> HandleFileChangeThen(st, ext.textureInfos),
          call |-> [call EXCEPT !.phase = "done", !.textureInfos = ext.textureInfos,
                                !.closure = << >>]]
    [] ext.status = "threw" ->
         [app |-> HandleFileChangeCatch(st, ext.error, call.closure),
          call |-> [call EXCEPT !.phase = "failed", !.error = ext.error,
                                !.closure = << >>]]

\* handleFileChange to its first await (lines 521-538): the user chooses
\* file f in the upload prompt.
ChooseFile(f) ==
  /\ ~showModelSections
  /\ IF ~files[f].vrm
       THEN /\ error' = InvalidFileType
            /\ UNCHANGED << vrmData, vrmPreviewBuffer, textures, resizeOptions,
                            isLoading, hasFinishedInitialLoad,
                            isInitialUploadLoading, blobs, calls >>
       ELSE /\ Len(calls) < MaxCalls
            /\ Cardinality(Uploads) < MaxUploads
            /\ Commit(HandleFileChangeStart(App, textures))
            /\ calls' = Append(calls, UploadCall(f, textures))
  /\ UNCHANGED << files, arrayBuffer, serviceVars >>

\* handleFileChange from line 539 to the await inside extractTextures, or
\* to its end: the file has been read.
FileRead(c) ==
  /\ calls[c].kind = "upload"
  /\ calls[c].phase = "reading"
  /\ LET buffer == files[calls[c].file].bytes
         st == [App EXCEPT !.vrmPreviewBuffer = [set |-> TRUE, bytes |-> buffer]]
         r == Bind(parseGlb(buffer), LAMBDA p :
                IF ~p.ok
                  THEN UploadSettle(st, calls[c], ExtractThrew(p.error))
                  ELSE UploadSettle(
                         [st EXCEPT !.vrmData =
                                      [set |-> TRUE, json |-> p.json, bin |-> p.bin]],
                         [calls[c] EXCEPT !.json = p.json, !.bin = p.bin],
                         extractTextures(p.json, p.bin)))
     IN  /\ Commit(r.app)
         /\ calls' = [calls EXCEPT ![c] = r.call]
  /\ UNCHANGED << files, arrayBuffer, serviceVars >>

\* img.onload of getImageDimensions: the image the call waits for decoded
\* to size, and the call goes on to its next await or to its end.
DecodeLoaded(c, size) ==
  /\ calls[c].kind = "upload"
  /\ calls[c].phase = "decoding"
  /\ LET call == calls[c]
         r == UploadSettle(Decoded(App, call.url, "loaded"), call,
                           OnDecodeLoad(call.json, call.bin, call.i,
                                        call.textureInfos, size, call.url))
     IN  /\ Commit(r.app)
         /\ calls' = [calls EXCEPT ![c] = r.call]
  /\ UNCHANGED << files, arrayBuffer, serviceVars >>

\* img.onerror of getImageDimensions: the image did not decode.
DecodeFailed(c) ==
  /\ calls[c].kind = "upload"
  /\ calls[c].phase = "decoding"
  /\ LET call == calls[c]
         r == UploadSettle(Decoded(App, call.url, "failed"), call,
                           OnDecodeError(call.json, call.bin, call.i,
                                         call.textureInfos))
     IN  /\ Commit(r.app)
         /\ calls' = [calls EXCEPT ![c] = r.call]
  /\ UNCHANGED << files, arrayBuffer, serviceVars >>

(***************************************************************************)
(* One upload of one file: the specification of extractTextures.  The file *)
(* is a container whose document varies the ranges of the bufferViews, or  *)
(* the names of the images and of the textures, or lacks a property.       *)
(***************************************************************************)
\* A name property: absent, the empty string, or a string.
NameOptions(string) ==
  { [has |-> FALSE, s |-> << >>], [has |-> TRUE, s |-> << >>],
    [has |-> TRUE, s |-> string] }

\* The object with the name property the option tells.
Named(object, option) ==
  IF option.has THEN Set(object, K_name, Str(option.s)) ELSE object

\* "Hair" and "Skin", the names of the textures, and "Body", of an image.
Hair == << 72, 97, 105, 114 >>

Skin == << 83, 107, 105, 110 >>

Body == << 66, 111, 100, 121 >>

\* "image/png"
ImagePng == << 105, 109, 97, 103, 101, 47, 112, 110, 103 >>

\* An entry of textures.
Texture(source, option) ==
  Named(Obj(<< [k |-> K_source, v |-> Num(source)] >>), option)

\* The entries a textures array is made of: the second entry for source 0
\* has another name than the first.
TextureEntries(name) ==
  { Texture(source, option) :
      source \in 0..(MaxImages - 1), option \in NameOptions(name) }

\* No textures property (has is FALSE), an empty array, one entry, or two
\* entries.
TextureLists ==
  { [has |-> FALSE, entries |-> << >>], [has |-> TRUE, entries |-> << >>] }
    \cup { [has |-> TRUE, entries |-> << first >>] : first \in TextureEntries(Hair) }
    \cup { [has |-> TRUE, entries |-> << first, second >>] :
             first \in TextureEntries(Hair), second \in TextureEntries(Skin) }

\* The document with the textures, the name of image 0 and a mimeType on
\* every image.
Textured(document, list, option) ==
  LET images == Get(document, K_images)
      typed == Arr([k \in 1..Length(images) |->
                      Set(IF k = 1 THEN Named(images.v[k], option) ELSE images.v[k],
                          K_mimeType, Str(ImagePng))])
      withImages == Set(document, K_images, typed)
  IN  IF list.has THEN Set(withImages, K_textures, Arr(list.entries))
      ELSE withImages

\* The document without the property key.
Without(document, key) ==
  Obj(SelectSeq(document.v, LAMBDA member : member.k # key))

\* A document whose only image names a bufferView past the last one.
Dangling(views) ==
  Document(views, << Len(views) >>, NoName, "full")

\* The documents of the uploads: every list of ranges with every list of
\* images; over the plain ranges, the textures and the names; and the
\* documents that lack images or bufferViews or name a missing bufferView.
ExtractionDocuments ==
  DocumentsOver(Ranges, { NoName }, "full")
    \cup { Textured(document, list, option) :
             document \in DocumentsOver(PlainRanges, { NoName }, "full")
                            \ { d \in DocumentsOver(PlainRanges, { NoName }, "full") :
                                  Length(Get(d, K_images)) = 0 },
             list \in TextureLists, option \in NameOptions(Body) }
    \cup DocumentsOver(PlainRanges, { NoName }, "no-images")
    \cup { Without(document, K_bufferViews) :
             document \in DocumentsOver(PlainRanges, { NoName }, "full") }
    \cup { Dangling(views) : views \in ViewLists(PlainRanges) }

\* A file with the name *.vrm that holds a document and the raw block.
VrmFile(document) ==
  [vrm |-> TRUE, bytes |-> Container(JsonChunk(document) \o BinChunk(RawBlock))]

\* No call of the service made one after the other is under way.
ServiceIdle ==
  /\ pc = "idle"
  /\ arrayBuffer = << >>
  /\ parsed = NoParse
  /\ originalJson = Undefined
  /\ originalBin = << >>
  /\ resizedImages = << >>
  /\ rebuilt = NoRebuild
  /\ reparsed = NoParse
  /\ rebuiltAgain = NoRebuild
  /\ chunks = << >>
  /\ variant = NoVariant
  /\ variantParsed = NoParse

\* The header of a file that is no glTF container.
NoMagic == Header(0, GLB_VERSION, GLB_HEADER_SIZE)

\* The files of the uploads: the containers of the documents, a file that
\* is no container, and a file whose name does not end in .vrm.
ExtractionFiles ==
  { VrmFile(document) : document \in ExtractionDocuments }
    \cup { [vrm |-> TRUE, bytes |-> NoMagic], [vrm |-> FALSE, bytes |-> NoMagic] }

InitExtract ==
  /\ ServiceIdle
  /\ AppStart
  /\ \E file \in ExtractionFiles : files = << file >>

\* The one upload of the session.
FirstUpload == calls = << >> /\ \E f \in 1..Len(files) : ChooseFile(f)

NextExtract ==
  \/ FirstUpload
  \/ \E c \in 1..Len(calls) : FileRead(c)
  \/ \E c \in 1..Len(calls), size \in ImageSizes : DecodeLoaded(c, size)
  \/ \E c \in 1..Len(calls) : DecodeFailed(c)

SpecExtract == InitExtract /\ [][NextExtract]_vars

(***************************************************************************)
(* The session: reset, the resize options, the replacement of a texture    *)
(* (handleTextureReplace) and the building of the processed container      *)
(* (buildProcessedGlb under handlePreviewUpdate and                        *)
(* handleProcessAndDownload).                                              *)
(***************************************************************************)
\* The phases of a call that waits for an operation to resolve.
InFlight == { "reading", "decoding", "loading", "building" }

\* The calls after the user reset the application: reset records, for a
\* call that was in flight, that the reset came before its result.
Overtaken(list) ==
  [c \in 1..Len(list) |->
     IF list[c].phase \in InFlight THEN [list[c] EXCEPT !.reset = TRUE]
     ELSE list[c]]

\* onReset of the model preview: resetState of the current render.
Reset ==
  /\ showModelSections
  /\ Commit(resetState(App, textures))
  /\ calls' = Overtaken(calls)
  /\ UNCHANGED << files, arrayBuffer, serviceVars >>

\* The sizes the select of a texture card offers besides 0, "Keep
\* Original" (TEXTURE_SIZES, scaled to the sizes of the images here).
TEXTURE_SIZES == { 1 }

\* new Map(prev).set(key, value)
MapSet(map, key, value) ==
  [k \in DOMAIN map \cup { key } |-> IF k = key THEN value ELSE map[k]]

\* Map.delete(key) on a copy.
MapDelete(map, key) == [k \in DOMAIN map \ { key } |-> map[k]]

\* Lines 558-560, handleResizeChange, from the select of the card of
\* textures[k]: the select is disabled for a replaced texture and offers
\* the sizes that one side of the image reaches.
ResizeChange(k, size) ==
  /\ showModelSections
  /\ ~textures[k].isReplaced
  /\ size = 0 \/ size <= textures[k].originalWidth \/ size <= textures[k].originalHeight
  /\ resizeOptions' = MapSet(resizeOptions, textures[k].index, size)
  /\ UNCHANGED << vrmData, vrmPreviewBuffer, textures, isLoading, error,
                  hasFinishedInitialLoad, isInitialUploadLoading, blobs, calls,
                  files, arrayBuffer, serviceVars >>

\* Lines 672-689, handleGlobalResize: size 0 clears the options; another
\* size is set for every texture that is not replaced and is larger.
GlobalResize(size) ==
  /\ showModelSections
  /\ resizeOptions' =
       IF size = 0 THEN << >>
       ELSE LET chosen == { k \in 1..Len(textures) :
                              /\ ~textures[k].isReplaced
                              /\ size < Max(textures[k].originalWidth,
                                            textures[k].originalHeight) }
            IN  [i \in { textures[k].index : k \in chosen } |-> size]
  /\ UNCHANGED << vrmData, vrmPreviewBuffer, textures, isLoading, error,
                  hasFinishedInitialLoad, isInitialUploadLoading, blobs, calls,
                  files, arrayBuffer, serviceVars >>

\* The image file the user replaces a texture with.
ImageFile == [type |-> Str(ImageJpeg), bytes |-> << 201, 202, 203 >>]

\* A call of handleTextureReplace(textureIndex, file), waiting for the
\* image of newBlobUrl to load.
ReplaceCall(textureIndex, newBlobUrl) ==
  [kind |-> "replace", phase |-> "loading", file |-> 0, closure |-> << >>,
   json |-> Undefined, bin |-> << >>, i |-> textureIndex, textureInfos |-> << >>,
   url |-> newBlobUrl, error |-> << >>, options |-> << >>, pending |-> {},
   imagesToProcess |-> << >>, reset |-> FALSE, invoked |-> FALSE]

\* Lines 613-615 and 641: the user picks the image file in the card of
\* textures[k].
ReplaceTexture(k) ==
  /\ showModelSections
  /\ k \in 1..Len(textures)
  /\ Len(calls) < MaxCalls
  /\ blobs' = CreateObjectURL(blobs, ImageFile.bytes)
  /\ calls' = Append(calls, ReplaceCall(textures[k].index, Len(blobs) + 1))
  /\ UNCHANGED << vrmData, vrmPreviewBuffer, textures, resizeOptions, isLoading,
                  error, hasFinishedInitialLoad, isInitialUploadLoading,
                  files, arrayBuffer, serviceVars >>

\* findIndex(t => t.index === textureIndex): the position, 0 for -1.
FindIndex(list, textureIndex) ==
  LET found == { k \in 1..Len(list) : list[k].index = textureIndex }
  IN  IF found = {} THEN 0 ELSE CHOOSE k \in found : \A o \in found : k <= o

\* Lines 617-639, the updaters of img.onload, on the state of the moment.
OnReplaceLoad(st, textureIndex, newBlobUrl, size) ==
  LET k == FindIndex(st.textures, textureIndex)
      updated ==
        IF k = 0 THEN st
        ELSE [st EXCEPT
                !.blobs = RevokeObjectURL(@, { st.textures[k].blobUrl }),
                !.textures[k] = [@ EXCEPT !.blobUrl = newBlobUrl,
                                          !.originalWidth = size.width,
                                          !.originalHeight = size.height,
                                          !.mimeType = ImageFile.type,
                                          !.isReplaced = TRUE]]
  IN  [updated EXCEPT !.resizeOptions = MapDelete(@, textureIndex)]

\* img.onload of handleTextureReplace.
ReplaceLoaded(c, size) ==
  /\ calls[c].kind = "replace"
  /\ calls[c].phase = "loading"
  /\ Commit(OnReplaceLoad(Decoded(App, calls[c].url, "loaded"), calls[c].i,
                          calls[c].url, size))
  /\ calls' = [calls EXCEPT ![c].phase = "done"]
  /\ UNCHANGED << files, arrayBuffer, serviceVars >>

\* The image of handleTextureReplace does not load: the call set no
\* img.onerror, and nothing runs.
ReplaceFailed(c) ==
  /\ calls[c].kind = "replace"
  /\ calls[c].phase = "loading"
  /\ Commit(Decoded(App, calls[c].url, "failed"))
  /\ calls' = [calls EXCEPT ![c].phase = "failed"]
  /\ UNCHANGED << files, arrayBuffer, serviceVars >>

\* The nearest integer to a * n / b, a half rounded up.
RoundExact(a, n, b) == (2 * a * n + b) \div (2 * b)

(***************************************************************************)
(* The Numbers of lines 109 and 114 are IEEE 754 doubles: newSize / width  *)
(* is rounded to 53 significant bits, and so is its product with height.   *)
(* A double is held here as three limbs of its significand, hi of 13 bits  *)
(* or more and mid and lo of 20 bits each, and the number z of zero bits   *)
(* between the binary point and the first bit of the quotient.             *)
(***************************************************************************)
Limb == 2 ^ 20

\* The limbs with every carry moved up.
Carry(hi, mid, lo) ==
  [hi |-> hi + (mid + lo \div Limb) \div Limb,
   mid |-> (mid + lo \div Limb) % Limb,
   lo |-> lo % Limb]

\* The zero bits after the binary point of n / b, for 0 < n < b.
LeadingZeros(n, b) == CHOOSE z \in 0..12 : n * 2 ^ z < b /\ b <= n * 2 ^ (z + 1)

\* n / b for 0 < n < b: the first 53 bits of the quotient from its first
\* 1 bit on, rounded to nearest, a tie to the even significand.
Quotient(n, b) ==
  LET z == LeadingZeros(n, b)
      d1 == (n * 2 ^ z * 2 ^ 13) \div b
      r1 == (n * 2 ^ z * 2 ^ 13) % b
      d2 == (r1 * Limb) \div b
      r2 == (r1 * Limb) % b
      d3 == (r2 * Limb) \div b
      r3 == (r2 * Limb) % b
      up == (2 * r3) \div b = 1 /\ ((2 * r3) % b # 0 \/ d3 % 2 = 1)
  IN  Carry(d1, d2, d3 + IF up THEN 1 ELSE 0)

\* The number of bits of hi, at least 13.
BitsOf(hi) == CHOOSE k \in 13..30 : 2 ^ (k - 1) <= hi /\ hi < 2 ^ k

\* a * q for an integer a: the product of the significand, rounded to 53
\* bits when it has more, a tie to the even significand.
Times(a, q) ==
  LET p == Carry(a * q.hi, a * q.mid, a * q.lo)
      e == BitsOf(p.hi) - 13
      kept == p.lo \div 2 ^ e
      up == /\ e > 0
            /\ (p.lo \div 2 ^ (e - 1)) % 2 = 1
            /\ (p.lo % 2 ^ (e - 1) # 0 \/ kept % 2 = 1)
  IN  Carry(p.hi, p.mid, (kept + IF up THEN 1 ELSE 0) * 2 ^ e)

\* Math.round of a double with z zero bits before the quotient it is a
\* multiple of: the integer part, and one more when the bit of the half is
\* set.
MathRound(x, z) == (x.hi \div 2 ^ (13 + z)) + ((x.hi \div 2 ^ (12 + z)) % 2)

\* Math.round(a * (n / b)) for integers 0 < n < b and 0 < a, as lines 109
\* and 114 compute it.
Round(a, n, b) == MathRound(Times(a, Quotient(n, b)), LeadingZeros(n, b))

\* ResizedSize without the tests of lines 108 and 113: the larger side
\* becomes newSize also when it is smaller.
ResizedSizeUpscaling(width, height, newSize) ==
  IF width > height
    THEN [width |-> newSize, height |-> RoundExact(height, newSize, width)]
    ELSE [width |-> RoundExact(width, newSize, height), height |-> newSize]

\* resizeImage, lines 106-116: the size of the canvas for an image of the
\* given width and height and the maximum newSize.
ResizedSize(width, height, newSize) ==
  IF width > height
    THEN IF width > newSize
           THEN [width |-> newSize, height |-> Round(height, newSize, width)]
           ELSE [width |-> width, height |-> height]
    ELSE IF height > newSize
           THEN [width |-> Round(width, newSize, height), height |-> newSize]
           ELSE [width |-> width, height |-> height]

\* The bytes canvas.toBlob encodes (lines 118-125): they tell the size of
\* the canvas.
Encoded(size) == << 200, size.width, size.height >>

\* Lines 695-699, changesCount, for a texture list and the options.
ChangesCount(list, options) ==
  Cardinality({ i \in DOMAIN options : options[i] > 0 })
    + Cardinality({ k \in 1..Len(list) : list[k].isReplaced })

\* Lines 578-587: one fetch of the blob for every replaced texture.  live
\* tells whether the URL was still valid when the task started.
FetchTasks(list, store) ==
  { [index |-> list[k].index, kind |-> "fetch", url |-> list[k].blobUrl,
     size |-> 0, live |-> ~store[list[k].blobUrl].revoked] :
      k \in { j \in 1..Len(list) : list[j].isReplaced } }

\* Lines 589-602 without the test of isReplaced on line 591: a replaced
\* texture with an option is resized as well.
ResizeTasksOfReplaced(list, options, store) ==
  { [index |-> i, kind |-> "resize", url |-> list[FindIndex(list, i)].blobUrl,
     size |-> options[i], live |-> ~store[list[FindIndex(list, i)].blobUrl].revoked] :
      i \in { j \in DOMAIN options : options[j] > 0 /\ FindIndex(list, j) # 0 } }

\* Lines 589-602: one resizeImage for every option with a size, unless the
\* texture is not found or is replaced.
ResizeTasks(list, options, store) ==
  { [index |-> i, kind |-> "resize", url |-> list[FindIndex(list, i)].blobUrl,
     size |-> options[i], live |-> ~store[list[FindIndex(list, i)].blobUrl].revoked] :
      i \in { j \in DOMAIN options :
                /\ options[j] > 0
                /\ FindIndex(list, j) # 0
                /\ ~list[FindIndex(list, j)].isReplaced } }

\* Lines 582 and 597: what a task that succeeded leaves in imagesToProcess.
TaskResult(task, list, store) ==
  LET texture == list[FindIndex(list, task.index)]
  IN  [data |-> IF task.kind = "fetch" THEN store[task.url].data
                ELSE Encoded(ResizedSize(texture.originalWidth,
                                         texture.originalHeight, task.size)),
       mimeType |-> texture.mimeType]

\* A call of handlePreviewUpdate (kind "preview") or of
\* handleProcessAndDownload (kind "download") with what buildProcessedGlb
\* closed over, at the await of line 604.
BuildCall(kind, data, list, options, tasks) ==
  [kind |-> kind, phase |-> "building", file |-> 0, closure |-> list,
   json |-> data.json, bin |-> data.bin, i |-> 0, textureInfos |-> << >>, url |-> 0,
   error |-> << >>, options |-> options, pending |-> tasks,
   imagesToProcess |-> << >>, reset |-> FALSE, invoked |-> FALSE]

\* Lines 731-736 and 762-767: the message of the catch, for an Error with
\* a message or for another value.
BuildError(kind, e, isError) ==
  IF kind = "download"
    THEN IF isError THEN << "An error occurred during processing: " >> \o e
         ELSE << "An unknown error occurred during processing." >>
    ELSE IF isError THEN << "An error occurred while updating the preview: " >> \o e
         ELSE << "An unknown error occurred while updating the preview." >>

\* The catch and the finally of the two handlers.
BuildCatch(st, call, e, isError) ==
  [app |-> [st EXCEPT !.error = BuildError(call.kind, e, isError),
                      !.isLoading = FALSE],
   call |-> [call EXCEPT !.phase = "failed", !.error = e, !.pending = {},
                         !.closure = << >>, !.options = << >>]]

\* The component after rebuildGlb ran on the document it was given, which
\* is the object vrmData holds unless vrmData has been set anew since the
\* call: what the call left of its caller's document is what vrmData holds.
Written(st, call, caller) ==
  IF caller = call.json THEN st
  ELSE IF /\ st.vrmData.set
          /\ st.vrmData.bin = call.bin
          /\ JSON_stringify(st.vrmData.json) = JSON_stringify(call.json)
         THEN [st EXCEPT !.vrmData.json = caller]
         ELSE st

\* Lines 606-610 and the rest of the handler, once every task is done:
\* nothing to process, or rebuildGlb throws, or the buffer is previewed or
\* downloaded.  invoked records that line 610 called rebuildGlb.
BuildSettle(st, call) ==
  IF ChangesCount(call.closure, call.options) = 0
    THEN [app |-> [st EXCEPT !.isLoading = FALSE],
          call |-> [call EXCEPT !.phase = "done", !.closure = << >>,
                                !.options = << >>]]
    ELSE Bind(rebuildGlb(call.json, call.bin, call.imagesToProcess), LAMBDA r :
           IF ~r.ok THEN BuildCatch(Written(st, call, r.caller),
                                    [call EXCEPT !.invoked = TRUE], r.error, TRUE)
           ELSE [app |-> [Written(st, call, r.caller) EXCEPT
                            !.vrmPreviewBuffer =
                               IF call.kind = "preview"
                                 THEN [set |-> TRUE, bytes |-> r.buffer] ELSE @,
                            !.isLoading = FALSE],
                 call |-> [call EXCEPT !.phase = "done", !.closure = << >>,
                                       !.options = << >>, !.invoked = TRUE]])

\* await Promise.race(tasks): the handler goes on with the first task that
\* is done.
PromiseRace(pending) == TRUE

\* Line 604, await Promise.all(tasks): the handler goes on when no task is
\* left.
PromiseAll(pending) == pending = {}

\* handlePreviewUpdate (743-772) or handleProcessAndDownload (701-741) to
\* the await of line 604: the button is enabled, the document is there,
\* the tasks start; without a task the handler runs to its end.
BuildStart(kind) ==
  /\ showModelSections
  /\ Len(calls) < MaxCalls
  /\ ChangesCount(textures, resizeOptions) > 0
  /\ kind = "preview" => Len(textures) > 0
  /\ vrmData.set
  /\ LET tasks == FetchTasks(textures, blobs)
                    \cup ResizeTasks(textures, resizeOptions, blobs)
         st == [App EXCEPT !.isLoading = TRUE, !.error = << >>]
         call == BuildCall(kind, vrmData, textures, resizeOptions, tasks)
         r == IF PromiseAll(tasks) THEN BuildSettle(st, call)
              ELSE [app |-> st, call |-> call]
     IN  /\ Commit(r.app)
         /\ calls' = Append(calls, r.call)
  /\ UNCHANGED << files, arrayBuffer, serviceVars >>

\* A task of the call succeeds; after the last one Promise.all resolves
\* and the handler runs to its end.
TaskDone(c, task) ==
  /\ calls[c].phase = "building"
  /\ task \in calls[c].pending
  /\ task.live
  /\ LET call == [calls[c] EXCEPT
                    !.pending = @ \ { task },
                    !.imagesToProcess =
                       MapSet(@, task.index,
                              TaskResult(task, calls[c].closure, blobs))]
         r == IF PromiseAll(call.pending) THEN BuildSettle(App, call)
              ELSE [app |-> App, call |-> call]
     IN  /\ Commit(r.app)
         /\ calls' = [calls EXCEPT ![c] = r.call]
  /\ UNCHANGED << files, arrayBuffer, serviceVars >>

\* Line 124: the Error of resizeImage when the canvas gives no blob.
CanvasError == << "Failed to create blob from canvas" >>

\* A task of the call fails and Promise.all rejects: the URL had been
\* revoked (the fetch throws a TypeError, the image load an Event), or the
\* canvas of resizeImage gave no blob.  What the other tasks do after
\* that changes nothing.
TaskFailed(c, task) ==
  /\ calls[c].phase = "building"
  /\ task \in calls[c].pending
  /\ task.kind = "resize" \/ ~task.live
  /\ LET r == IF ~task.live
                THEN BuildCatch(App, calls[c],
                                IF task.kind = "fetch" THEN TypeError ELSE DecodeError,
                                task.kind = "fetch")
                ELSE BuildCatch(App, calls[c], CanvasError, TRUE)
     IN  /\ Commit(r.app)
         /\ calls' = [calls EXCEPT ![c] = r.call]
  /\ UNCHANGED << files, arrayBuffer, serviceVars >>

\* The files of the session: a container with two images, and a container
\* whose document has an image and no buffer.
SessionFiles ==
  << VrmFile(Document(<< << 0, 2 >>, << 2, 2 >> >>, << 0, 1 >>, NoName, "full")),
     VrmFile(Document(<< << 0, 2 >> >>, << 0 >>, NoName, "no-buffers")) >>

InitApp ==
  /\ ServiceIdle
  /\ AppStart
  /\ files = SessionFiles

NextApp ==
  \/ \E f \in 1..Len(files) : ChooseFile(f)
  \/ \E c \in 1..Len(calls) : FileRead(c)
  \/ \E c \in 1..Len(calls), size \in SessionSizes : DecodeLoaded(c, size)
  \/ \E c \in 1..Len(calls) : DecodeFailed(c)
  \/ Reset
  \/ \E k \in 1..Len(textures), size \in { 0 } \cup TEXTURE_SIZES : ResizeChange(k, size)
  \/ \E size \in { 0 } \cup TEXTURE_SIZES : GlobalResize(size)
  \/ \E k \in 1..Len(textures) : ReplaceTexture(k)
  \/ \E c \in 1..Len(calls), size \in SessionSizes : ReplaceLoaded(c, size)
  \/ \E c \in 1..Len(calls) : ReplaceFailed(c)
  \/ \E kind \in { "preview", "download" } : BuildStart(kind)
  \/ \E c \in 1..Len(calls) : \E task \in calls[c].pending : TaskDone(c, task)
  \/ \E c \in 1..Len(calls) : \E task \in calls[c].pending : TaskFailed(c, task)

SpecApp == InitApp /\ [][NextApp]_vars

\* The session without the resize options and the building: uploads,
\* resets and replacements.
NextReplace ==
  \/ \E f \in 1..Len(files) : ChooseFile(f)
  \/ \E c \in 1..Len(calls) : FileRead(c)
  \/ \E c \in 1..Len(calls), size \in SessionSizes : DecodeLoaded(c, size)
  \/ \E c \in 1..Len(calls) : DecodeFailed(c)
  \/ Reset
  \/ \E k \in 1..Len(textures) : ReplaceTexture(k)
  \/ \E c \in 1..Len(calls), size \in SessionSizes : ReplaceLoaded(c, size)
  \/ \E c \in 1..Len(calls) : ReplaceFailed(c)

SpecReplace == InitApp /\ [][NextReplace]_vars

\* The uploads alone: the upload prompt stays in place while a file is
\* read and its textures are extracted, and takes another file.
NextUploads ==
  \/ \E f \in 1..Len(files) : ChooseFile(f)
  \/ \E c \in 1..Len(calls) : FileRead(c)
  \/ \E c \in 1..Len(calls), size \in SessionSizes : DecodeLoaded(c, size)
  \/ \E c \in 1..Len(calls) : DecodeFailed(c)

SpecUploads == InitApp /\ [][NextUploads]_vars

(***************************************************************************)
(* resizeImage (vrmService.ts 98-131) on an image of every size: the image *)
(* loads and is drawn on the canvas, or it does not load.                  *)
(***************************************************************************)
\* The most pixels of a side of the image, and the largest newSize.
MaxSide == 22

\* Lines 101-121, img.onload: the canvas gets its size and the image is
\* drawn on it.
OnImageLoad ==
  /\ resizing.phase = "loading"
  /\ resizing' = [resizing EXCEPT
                    !.phase = "drawn",
                    !.canvas = ResizedSize(resizing.img.width, resizing.img.height,
                                           resizing.newSize)]
  /\ UNCHANGED << arrayBuffer, appVars, pc, parsed, originalJson, originalBin,
                  resizedImages, rebuilt, reparsed, rebuiltAgain, chunks, variant,
                  variantParsed >>

\* Line 128, img.onerror = reject.
OnImageError ==
  /\ resizing.phase = "loading"
  /\ resizing' = [resizing EXCEPT !.phase = "rejected"]
  /\ UNCHANGED << arrayBuffer, appVars, pc, parsed, originalJson, originalBin,
                  resizedImages, rebuilt, reparsed, rebuiltAgain, chunks, variant,
                  variantParsed >>

InitResize ==
  /\ ServiceIdle
  /\ UseStateStart
  /\ files = << >>
  /\ \E width \in 1..MaxSide, height \in 1..MaxSide, newSize \in 1..MaxSide :
       resizing = [phase |-> "loading",
                   img |-> [width |-> width, height |-> height],
                   newSize |-> newSize,
                   canvas |-> [width |-> 0, height |-> 0]]

NextResize == OnImageLoad \/ OnImageError

SpecResize == InitResize /\ [][NextResize]_vars

(***************************************************************************)
(* What the claims speak of.                                               *)
(***************************************************************************)
\* rebuildGlb has returned a buffer.
HasRebuilt == pc \in { "rebuilt", "reparsed", "rebuilt twice" } /\ rebuilt.ok

\* rebuildGlb has been called: it returned or threw.
WasCalled == pc \in { "rebuilt", "reparsed", "rebuilt twice" }

\* The bufferViews and the images of a document, as sequences.
ViewsOf(document) == Get(document, K_bufferViews).v

ImagesOf(document) == Get(document, K_images).v

OffsetOf(view) == Get(view, K_byteOffset).v

LengthOf(view) == Get(view, K_byteLength).v

RECURSIVE SumOfLengths(_, _)
\* The sum of the byteLength of the first n bufferViews.
SumOfLengths(views, n) ==
  IF n = 0 THEN 0 ELSE SumOfLengths(views, n - 1) + LengthOf(views[n])

\* The two chunks of the buffer returned, read at their places.
OutJsonLength == getUint32(rebuilt.buffer, 12)

OutJsonPayload == Range0(rebuilt.buffer, 20, 20 + OutJsonLength)

OutBinLength == getUint32(rebuilt.buffer, 20 + OutJsonLength)

OutBinPayload ==
  Range0(rebuilt.buffer, 28 + OutJsonLength, 28 + OutJsonLength + OutBinLength)

\* The bytes of a raw block in the range of a bufferView: those of its
\* positions that the block has.
BytesIn(block, view) ==
  LET from == Min(OffsetOf(view), Len(block))
      to == Min(OffsetOf(view) + LengthOf(view), Len(block))
  IN  [k \in 1..(to - from) |-> block[from + k]]

\* Every range of the document lies inside the raw block.
RangesInside(document, block) ==
  \A j \in 1..Len(ViewsOf(document)) :
    OffsetOf(ViewsOf(document)[j]) + LengthOf(ViewsOf(document)[j]) <= Len(block)

\* The document has what §3 gives a StructuralDocument: the images and
\* bufferViews arrays and the entry buffers[0].
IsStructural(document) ==
  /\ IsArr(Get(document, K_images))
  /\ IsArr(Get(document, K_bufferViews))
  /\ IsObj(At(Get(document, K_buffers), 0))

\* C1: after rebuildGlb returns, every bufferView of the output document
\* starts where the ones before it end (byteOffset is the sum of the
\* byteLengths before it), ends inside the buffer, and buffers[0].byteLength
\* is the sum of all byteLengths, whatever the input offsets and the sizes
\* of the replacement payloads were.
C1_OffsetConsistency ==
  HasRebuilt =>
    LET views == ViewsOf(rebuilt.json)
        total == Get(At(Get(rebuilt.json, K_buffers), 0), K_byteLength).v
    IN  /\ total = SumOfLengths(views, Len(views))
        /\ \A j \in 1..Len(views) :
             /\ OffsetOf(views[j]) = SumOfLengths(views, j - 1)
             /\ OffsetOf(views[j]) + LengthOf(views[j]) <= total

\* A call that returned for two bufferViews whose input offsets were not
\* the running sums, one of them leaving the raw block, with a replacement
\* that changed a length.
C1_Witness ==
  /\ HasRebuilt
  /\ Len(ViewsOf(parsed.json)) = 2
  /\ ~RangesInside(parsed.json, parsed.bin)
  /\ OffsetOf(ViewsOf(parsed.json)[2]) # LengthOf(ViewsOf(parsed.json)[1])
  /\ DOMAIN resizedImages # {}
  /\ LengthOf(ViewsOf(rebuilt.json)[1]) # LengthOf(ViewsOf(parsed.json)[1])

\* The bytes of the rebuilt raw block in the new range of bufferView j
\* (1-based in the sequence of bufferViews).
NewBytes(j) == BytesIn(OutBinPayload, ViewsOf(rebuilt.json)[j])

\* The bytes of the input raw block in the original range of bufferView j.
OriginalBytes(j) == BytesIn(parsed.bin, ViewsOf(parsed.json)[j])

\* The bufferView (1-based) that image i (0-based) of the input names.
ViewOfImage(i) == Get(At(Get(parsed.json, K_images), i), K_bufferView).v + 1

\* What C2 asks of image i: the replacement payload if the map has one, the
\* original bytes if not.
KeepsOrReplaces(i) ==
  IF i \in DOMAIN resizedImages
    THEN NewBytes(ViewOfImage(i)) = resizedImages[i].data
    ELSE NewBytes(ViewOfImage(i)) = OriginalBytes(ViewOfImage(i))

\* C2: after rebuildGlb returns, for every image, the bytes in the new range
\* of its bufferView are the replacement payload if the image has one and
\* the bytes of its original range if not.
C2_EveryImage ==
  HasRebuilt =>
    \A i \in 0..(Len(ImagesOf(parsed.json)) - 1) : KeepsOrReplaces(i)

\* The text of the output document and the pad after it in the JSON chunk.
OutJsonText == TextEncode(JSON_stringify(rebuilt.json))

\* C3: in the buffer rebuildGlb returns, the length of both chunk payloads
\* is a multiple of 4; the JSON chunk is the document's text followed by
\* fewer than 4 bytes 0x20, the BIN chunk the raw block followed by fewer
\* than 4 bytes 0x00.
C3_Alignment ==
  HasRebuilt =>
    LET rawLength == Get(At(Get(rebuilt.json, K_buffers), 0), K_byteLength).v
    IN  /\ OutJsonLength % 4 = 0
        /\ OutBinLength % 4 = 0
        /\ OutJsonLength - Len(OutJsonText) \in 0..3
        /\ \A k \in (Len(OutJsonText) + 1)..OutJsonLength : OutJsonPayload[k] = 32
        /\ OutBinLength - rawLength \in 0..3
        /\ \A k \in (rawLength + 1)..OutBinLength : OutBinPayload[k] = 0

\* The contents of every bufferView are the same in the input and in the
\* container parsed from the output.
SameContents ==
  /\ Len(ViewsOf(reparsed.json)) = Len(ViewsOf(parsed.json))
  /\ \A j \in 1..Len(ViewsOf(parsed.json)) :
       BytesIn(reparsed.bin, ViewsOf(reparsed.json)[j]) = OriginalBytes(j)

\* The round trip of the input: rebuildGlb with an empty map returns, and
\* parseGlb of what it returns yields the same images and contents.
RoundTrips ==
  /\ WasCalled /\ DOMAIN resizedImages = {} => rebuilt.ok
  /\ pc = "reparsed" =>
       /\ reparsed.ok
       /\ Get(reparsed.json, K_images) = Get(parsed.json, K_images)
       /\ SameContents

\* C4: for every container that parseGlb accepts and whose ranges lie inside
\* the raw block, parseGlb of rebuildGlb of its document, its raw block and
\* an empty map succeeds with the same images array and the same contents
\* of every bufferView.
C4_EveryAccepted ==
  (parsed.ok /\ RangesInside(parsed.json, parsed.bin)) => RoundTrips

\* C5: the buffer rebuildGlb returns is the 12-byte header (magic, version
\* 2, total length), one chunk tagged JSON and one chunk tagged BIN, in that
\* order and nothing after them; the total length declared is
\* 12 + 8 + jsonChunkLen + 8 + binChunkLen and is the length of the buffer.
C5_Layout ==
  HasRebuilt =>
    /\ Len(rebuilt.buffer) >= 28
    /\ getUint32(rebuilt.buffer, 0) = 1179937895
    /\ getUint32(rebuilt.buffer, 4) = 2
    /\ getUint32(rebuilt.buffer, 16) = 1313821514
    /\ 28 + OutJsonLength <= Len(rebuilt.buffer)
    /\ getUint32(rebuilt.buffer, 24 + OutJsonLength) = 5130562
    /\ getUint32(rebuilt.buffer, 8) = 12 + 8 + OutJsonLength + 8 + OutBinLength
    /\ getUint32(rebuilt.buffer, 8) = Len(rebuilt.buffer)

\* A call that returned for a document with no bufferViews: the BIN chunk
\* is there and empty.
C5_Witness ==
  /\ HasRebuilt
  /\ ViewsOf(rebuilt.json) = << >>
  /\ OutBinLength = 0
  /\ Len(rebuilt.buffer) = 28 + OutJsonLength

\* C6: a call of rebuildGlb, whether it returns or throws, leaves the
\* caller's document, with its images, bufferViews and buffers, and the
\* caller's raw block as they were before the call, and the payloads of the
\* map as they were passed.
C6_InputsUntouched ==
  [][pc = "parsed" =>
       /\ originalJson' = originalJson
       /\ originalBin' = originalBin
       /\ \A i \in DOMAIN resizedImages' : resizedImages'[i].data = Payload(i)]_vars

\* A call that threw after it had written new lengths to its copy: the copy
\* differs from the document the caller passed.
C6_Witness ==
  /\ WasCalled
  /\ ~rebuilt.ok
  /\ IsArr(Get(rebuilt.json, K_bufferViews))
  /\ Get(rebuilt.json, K_bufferViews) # Get(parsed.json, K_bufferViews)
  /\ originalJson = parsed.json

(***************************************************************************)
(* What the claims on parseGlb speak of.                                   *)
(***************************************************************************)
\* parseGlb has been called on the file.
WasParsed == pc \in { "parsed", "failed", "compared" }

HasMagic == canGetUint32(arrayBuffer, 0)

HasVersion == canGetUint32(arrayBuffer, 4)

\* A failure that left nothing: no document, no raw block, no chunk read.
FailedAtHeader(e) ==
  /\ ~parsed.ok
  /\ parsed.error = e
  /\ parsed.json = Undefined
  /\ parsed.bin = << >>
  /\ parsed.iterations = 0

\* The number of chunks of the file with this type.
Count(type) == Cardinality({ k \in 1..Len(chunks) : TypeOf(chunks[k]) = type })

\* C7: parseGlb returns only if the first 4 bytes are the magic 0x46546C67
\* and the next 4 are the version 2; with another magic or another version
\* it fails, yields no document and no raw block and reads no chunk; the
\* magic is checked before the version, so that a wrong magic is what a
\* file with both wrong is reported for.
C7_HeaderFirst ==
  WasParsed =>
    /\ parsed.ok =>
         /\ HasMagic /\ getUint32(arrayBuffer, 0) = 1179937895
         /\ HasVersion /\ getUint32(arrayBuffer, 4) = 2
    /\ HasMagic /\ getUint32(arrayBuffer, 0) # 1179937895
         => FailedAtHeader(MissingMagic)
    /\ HasMagic /\ getUint32(arrayBuffer, 0) = 1179937895
         /\ HasVersion /\ getUint32(arrayBuffer, 4) # 2
         => FailedAtHeader(UnsupportedVersion(getUint32(arrayBuffer, 4)))

\* A file with a JSON and a BIN chunk whose magic and version are both
\* wrong: it failed for its magic.
C7_Witness ==
  /\ pc = "failed"
  /\ Count(JSON_CHUNK_TYPE) = 1
  /\ Count(BIN_CHUNK_TYPE) = 1
  /\ getUint32(arrayBuffer, 0) = 0
  /\ getUint32(arrayBuffer, 4) = 1
  /\ parsed.error = MissingMagic

\* C8: for every file with a valid magic and version in which the JSON
\* chunk type or the BIN chunk type does not occur, parseGlb fails with
\* 'Invalid GLB file: Missing JSON or BIN chunk.', files that end in fewer
\* than 8 bytes after the last complete chunk and files of 12 bytes
\* included.
C8_MissingChunk ==
  (/\ WasParsed
   /\ HasMagic /\ getUint32(arrayBuffer, 0) = 1179937895
   /\ HasVersion /\ getUint32(arrayBuffer, 4) = 2
   /\ Count(JSON_CHUNK_TYPE) = 0 \/ Count(BIN_CHUNK_TYPE) = 0)
    => ~parsed.ok /\ parsed.error = MissingChunk

\* The file loaded is a header and a well-formed sequence of chunks with one
\* JSON chunk and one BIN chunk.
IsWellFormed ==
  /\ arrayBuffer = File(GLB_MAGIC, GLB_VERSION, chunks, 0)
  /\ Count(JSON_CHUNK_TYPE) = 1
  /\ Count(BIN_CHUNK_TYPE) = 1

\* parseGlb did the same on both files: the same error, or the same
\* document and the same bytes of the raw block.
SameOutcome ==
  /\ variantParsed.ok = parsed.ok
  /\ variantParsed.error = parsed.error
  /\ variantParsed.json = parsed.json
  /\ variantParsed.bin = parsed.bin

\* C9: for every well-formed sequence of chunks with one JSON and one BIN
\* chunk, parseGlb returns the same document and raw block whether JSON
\* precedes BIN or BIN precedes JSON, and with chunks of another type added
\* before, between or after them.
C9_OrderAndUnknown ==
  (pc = "compared" /\ IsWellFormed /\ variant.relation # "declared")
    => parsed.ok /\ variantParsed.ok /\ SameOutcome

\* A file whose JSON and BIN chunk were exchanged and that got a chunk of
\* another type between them, parsed to the document and raw block of the
\* first.
C9_Witness ==
  /\ pc = "compared"
  /\ IsWellFormed
  /\ Len(chunks) = 2
  /\ variant.relation = "exchanged"
  /\ variant.inserted
  /\ TypeOf(SubSeq(variant.buffer, 13, 20)) = BIN_CHUNK_TYPE
  /\ variantParsed.ok
  /\ variantParsed.json = JSON_parse(JSON_stringify(SampleDocument)).x
  /\ variantParsed.bin = RawBlock

\* C10: two files that differ only in bytes 8..11, the declared total
\* length, fail with the same error or give the same document and the same
\* bytes of the raw block.
C10_DeclaredLength ==
  (pc = "compared" /\ variant.relation = "declared") => SameOutcome

\* A file that parseGlb accepts and a second one that declares a shorter
\* total length, one that ends before the BIN chunk.
C10_Witness ==
  /\ pc = "compared"
  /\ variant.relation = "declared"
  /\ parsed.ok
  /\ variantParsed.ok
  /\ getUint32(variant.buffer, 8) = GLB_HEADER_SIZE
  /\ getUint32(arrayBuffer, 8) = Len(arrayBuffer)
  /\ Len(arrayBuffer) > GLB_HEADER_SIZE

(***************************************************************************)
(* bufferViews of no image, and a second call.                             *)
(***************************************************************************)
\* No image of the input names bufferView j (1-based).
IsUnowned(j) ==
  \A i \in 0..(Len(ImagesOf(parsed.json)) - 1) : ViewOfImage(i) # j

\* bufferView j of the input is in the output with its length and its bytes.
IsPreserved(j) ==
  /\ Len(ViewsOf(rebuilt.json)) = Len(ViewsOf(parsed.json))
  /\ LengthOf(ViewsOf(rebuilt.json)[j]) = LengthOf(ViewsOf(parsed.json)[j])
  /\ NewBytes(j) = OriginalBytes(j)

\* The range of bufferView j of the input lies inside the raw block.
RangeInside(j) ==
  OffsetOf(ViewsOf(parsed.json)[j]) + LengthOf(ViewsOf(parsed.json)[j])
    <= Len(parsed.bin)

\* C16: after rebuildGlb returns, for every replacement map, a bufferView
\* that no image references is in the output, with its byteLength unchanged
\* and its original bytes at its new offset.
C16_UnownedPreserved ==
  HasRebuilt =>
    \A j \in 1..Len(ViewsOf(parsed.json)) : IsUnowned(j) => IsPreserved(j)

\* C16 for the bufferViews whose declared range lies inside the input raw
\* block: after rebuildGlb returns, for every replacement map, such a
\* bufferView that no image references is in the output, with its byteLength
\* unchanged and its original bytes at its new offset.
C16_UnownedInsidePreserved ==
  HasRebuilt =>
    \A j \in 1..Len(ViewsOf(parsed.json)) :
      IsUnowned(j) /\ RangeInside(j) => IsPreserved(j)

\* A call that returned for a document whose second bufferView has no image
\* and lies inside the raw block, and whose first was replaced by a payload
\* of another length: the second has moved and kept its bytes; the map has
\* an entry under the index of the second bufferView.
C16_Witness ==
  /\ HasRebuilt
  /\ Len(ViewsOf(parsed.json)) = 2
  /\ IsUnowned(2)
  /\ RangeInside(2)
  /\ DOMAIN resizedImages = { 0, 1 }
  /\ Len(ImagesOf(parsed.json)) = 1
  /\ OffsetOf(ViewsOf(rebuilt.json)[2]) # OffsetOf(ViewsOf(parsed.json)[2])
  /\ NewBytes(2) = << 13, 14 >>

\* C17: rebuildGlb called twice in a row with the same document, the same
\* raw block and the same empty map gives the same outcome both times: two
\* buffers with the same bytes, or the same exception.
C17_Repeatable ==
  pc = "rebuilt twice" =>
    /\ rebuiltAgain.ok = rebuilt.ok
    /\ rebuiltAgain.error = rebuilt.error
    /\ rebuiltAgain.buffer = rebuilt.buffer

\* Two calls that returned for a document whose offsets the first call had
\* to rewrite in its copy.
C17_Witness ==
  /\ pc = "rebuilt twice"
  /\ rebuilt.ok
  /\ rebuiltAgain.ok
  /\ Len(ViewsOf(parsed.json)) = 2
  /\ Get(rebuilt.json, K_bufferViews) # Get(parsed.json, K_bufferViews)
  /\ Len(rebuiltAgain.buffer) > 28

(***************************************************************************)
(* extractTextures: what it returns and when it fails.                     *)
(***************************************************************************)
\* Call c is an upload whose file parsed: extractTextures was called with
\* the json and the bin of the call.
Extracts(c) == calls[c].kind = "upload" /\ IsObj(calls[c].json)

\* The property is not there.
Absent(document, key) == Get(document, key).t = "undef"

\* C15: extractTextures returns an empty list, without an error, without
\* a blob URL and without a decode, whenever the document has no images or
\* no bufferViews.
C15_EmptyWhenAbsent ==
  \A c \in 1..Len(calls) :
    (/\ Extracts(c)
     /\ Absent(calls[c].json, K_images) \/ Absent(calls[c].json, K_bufferViews))
      => /\ calls[c].phase = "done"
         /\ calls[c].textureInfos = << >>
         /\ calls[c].error = << >>
         /\ blobs = << >>
         /\ error = << >>

\* An upload of a document with images and without bufferViews is over.
C15_Witness ==
  \E c \in 1..Len(calls) :
    /\ Extracts(c)
    /\ Absent(calls[c].json, K_bufferViews)
    /\ ~Absent(calls[c].json, K_images)
    /\ Length(Get(calls[c].json, K_images)) > 0
    /\ calls[c].phase = "done"

\* The value is the string s.
IsString(x, s) == x.t = "str" /\ x.v = s

\* The object has a name that is a string with characters.
HasName(object) == Get(object, K_name).t = "str" /\ Get(object, K_name).v # << >>

\* The entries of textures, as a sequence; none without the property.
EntriesOf(document) ==
  IF IsArr(Get(document, K_textures)) THEN Get(document, K_textures).v ELSE << >>

\* Entry k is the first entry of textures whose source is i.
IsFirstFor(document, k, i) ==
  /\ Get(EntriesOf(document)[k], K_source) = Num(i)
  /\ \A j \in 1..(k - 1) : Get(EntriesOf(document)[j], K_source) # Num(i)

\* The name the handle of image i is to have.
ResolvedName(document, i) ==
  LET entries == EntriesOf(document)
      image == At(Get(document, K_images), i)
  IN  IF \E k \in 1..Len(entries) : IsFirstFor(document, k, i) /\ HasName(entries[k])
        THEN Get(entries[CHOOSE k \in 1..Len(entries) : IsFirstFor(document, k, i)],
                 K_name)
      ELSE IF HasName(image) THEN Get(image, K_name)
      ELSE Str(<< 84, 101, 120, 116, 117, 114, 101, 32 >> \o Digits(i))

\* The document has one image, on bufferView 0, and it has no name.
OneUnnamedImage(document) ==
  /\ Length(Get(document, K_images)) = 1
  /\ Get(At(Get(document, K_images), 0), K_bufferView) = Num(0)
  /\ Absent(At(Get(document, K_images), 0), K_name)

\* C14: the name of the handle of image i is the name of the first entry
\* of textures whose source is i, if it has a non-empty name; otherwise
\* the name of the image, if non-empty; otherwise "Texture i".  With one
\* unnamed image and textures = [{source:0, name:"Hair"}] the name is
\* "Hair"; without textures it is "Texture 0".
C14_NameResolution ==
  \A c \in 1..Len(calls) : \A k \in 1..Len(calls[c].textureInfos) :
    Extracts(c) =>
      LET document == calls[c].json
          handle == calls[c].textureInfos[k]
      IN  /\ handle.name = ResolvedName(document, handle.index)
          /\ (/\ OneUnnamedImage(document)
              /\ EntriesOf(document) = << Texture(0, [has |-> TRUE, s |-> Hair]) >>)
               => handle.name = Str(Hair)
          /\ (OneUnnamedImage(document) /\ Absent(document, K_textures))
               => handle.name = Str(<< 84, 101, 120, 116, 117, 114, 101, 32, 48 >>)

\* A handle took the name of the first of two entries for its image, and
\* not the name its image has.
C14_Witness ==
  \E c \in 1..Len(calls) : \E k \in 1..Len(calls[c].textureInfos) :
    /\ Extracts(c)
    /\ calls[c].phase = "done"
    /\ calls[c].textureInfos[k].index = 0
    /\ IsString(calls[c].textureInfos[k].name, Hair)
    /\ IsString(Get(At(Get(calls[c].json, K_images), 0), K_name), Body)
    /\ Len(EntriesOf(calls[c].json)) = 2
    /\ IsString(Get(EntriesOf(calls[c].json)[2], K_name), Skin)
    /\ Get(EntriesOf(calls[c].json)[2], K_source) = Num(0)

\* The range image i declares through its bufferView leaves the raw block.
LeavesBlock(document, bin, i) ==
  LET view == BufferViewOf(document, i)
  IN  /\ IsObj(view)
      /\ ToIndex(Get(view, K_byteOffset)) + ToIndex(Get(view, K_byteLength)) > Len(bin)

\* The blob of url holds fewer bytes than the range of image i declares.
IsTruncated(document, url, i) ==
  Len(blobs[url].data) < ToIndex(Get(BufferViewOf(document, i), K_byteLength))

\* C11: when the range of some image leaves the raw block, extractTextures
\* fails with a RangeError and returns no list, and no blob URL is made of
\* a truncated slice.
C11_RangeChecked ==
  \A c \in 1..Len(calls) :
    (/\ Extracts(c)
     /\ ~ExtractIsEmpty(calls[c].json)
     /\ \E i \in 0..(ImagesLength(calls[c].json) - 1) :
          LeavesBlock(calls[c].json, calls[c].bin, i))
      => /\ calls[c].phase = "failed"
         /\ calls[c].error = RangeError
         /\ \A i \in 0..(ImagesLength(calls[c].json) - 1), url \in 1..Len(blobs) :
              ~(/\ LeavesBlock(calls[c].json, calls[c].bin, i)
                /\ calls[c].url = url
                /\ calls[c].i = i
                /\ IsTruncated(calls[c].json, url, i))

\* C12: extraction fails fast.  When the decode of an image failed, the
\* call of extractTextures failed and handed no list to its caller: the
\* upload ended in its catch, and the texture list of the application is
\* empty; and it is empty as long as the upload has not stored a list.
C12_FailFast ==
  \A c \in 1..Len(calls) :
    calls[c].kind = "upload" =>
      /\ (\E url \in 1..Len(blobs) : blobs[url].decode = "failed")
           => /\ calls[c].phase = "failed"
              /\ calls[c].error = DecodeError
              /\ textures = << >>
              /\ ~hasFinishedInitialLoad
      /\ calls[c].phase # "done" => textures = << >>

\* The decode of the second image failed after the first image decoded.
C12_Witness ==
  \E c \in 1..Len(calls) :
    /\ calls[c].kind = "upload"
    /\ calls[c].phase = "failed"
    /\ Len(blobs) = 2
    /\ blobs[1].decode = "loaded"
    /\ blobs[2].decode = "failed"
    /\ Len(calls[c].textureInfos) = 1

\* The images of the document an upload extracted from, as a sequence.
ImagesExtracted(c) ==
  IF ExtractIsEmpty(calls[c].json) THEN << >> ELSE Get(calls[c].json, K_images).v

\* C13: the list extractTextures returns has one handle for every image, in
\* the order of the images: the handle at position k has index k and the
\* bufferViewIndex of image k; and in the texture list of the application,
\* whatever was replaced, every handle has the index of its position.
C13_StableOrder ==
  /\ \A c \in Uploads :
       (calls[c].phase = "done" /\ IsObj(calls[c].json)) =>
         /\ Len(calls[c].textureInfos) = Len(ImagesExtracted(c))
         /\ \A k \in 1..Len(calls[c].textureInfos) :
              /\ calls[c].textureInfos[k].index = k - 1
              /\ calls[c].textureInfos[k].bufferViewIndex
                   = Get(ImagesExtracted(c)[k], K_bufferView)
  /\ \A k \in 1..Len(textures) : textures[k].index = k - 1

\* An upload returned two handles, and the second texture of the list has
\* been replaced while the first has not.
C13_Witness ==
  /\ \E c \in Uploads : calls[c].phase = "done" /\ Len(calls[c].textureInfos) = 2
  /\ Len(textures) = 2
  /\ textures[2].isReplaced
  /\ ~textures[1].isReplaced
  /\ textures[2].index = 1

(***************************************************************************)
(* Failures and the object URLs of the session.                            *)
(***************************************************************************)
\* In this step call c of a handler that parses, extracts or rebuilds ends
\* in its catch.
Fails(c) ==
  /\ c \in 1..Len(calls')
  /\ calls'[c].kind # "replace"
  /\ calls'[c].phase = "failed"
  /\ c \in 1..Len(calls) => calls[c].phase # "failed"

\* The phase of every call: a call fails only in a step that changes it.
Phases == [c \in 1..Len(calls) |-> calls[c].phase]

\* C18: after a failure of the parser or of the extractor during an upload,
\* and after a failure while the processed container is built, the error
\* field holds a message when the failing handler has finished.
C18_ErrorShown ==
  [][\A c \in 1..MaxCalls : Fails(c) => error' # << >>]_Phases

\* C19: when a handler fails in parse, extract or rebuild, it leaves
\* vrmData null, no texture, no resize option, no preview buffer and
\* isLoading false.
C19_ResetOnFailure ==
  [][\A c \in 1..MaxCalls :
       Fails(c) => /\ ~vrmData'.set
                   /\ textures' = << >>
                   /\ resizeOptions' = << >>
                   /\ ~vrmPreviewBuffer'.set
                   /\ ~isLoading']_Phases

\* No upload is under way and no replacement image is loading.
IsQuiet == \A c \in 1..Len(calls) : calls[c].phase \notin { "reading", "decoding", "loading" }

\* C20: whenever no extraction and no replacement load is in flight, every
\* object URL that was created and not revoked is the blobUrl of a handle
\* of the texture list.
C20_NoLeak ==
  IsQuiet => \A url \in 1..Len(blobs) : ~blobs[url].revoked => url \in UrlsOf(textures)

(***************************************************************************)
(* Resets, builds and overlapping uploads.                                 *)
(***************************************************************************)
\* In this step call c, in flight when the user reset the application,
\* resolves: it leaves the phase it waited in.
ResolvesAfterReset(c) ==
  /\ c \in 1..Len(calls)
  /\ calls[c].reset
  /\ calls[c].phase \in InFlight
  /\ calls'[c].phase # calls[c].phase

\* vrmData, the texture list, the resize options and the preview buffer
\* are as resetState leaves them.
IsCleared ==
  /\ ~vrmData.set
  /\ textures = << >>
  /\ resizeOptions = << >>
  /\ ~vrmPreviewBuffer.set

\* C21: when an operation that was in flight at a reset of the user
\* resolves and vrmData, the texture list, the resize options and the
\* preview buffer are still as the reset left them, they stay so.
C21_ResetDiscards ==
  [][\A c \in 1..MaxCalls :
       ResolvesAfterReset(c) /\ IsCleared => IsCleared']_Phases

\* Every map of resize options over the indexes of a texture list.
OptionMaps(list) ==
  UNION { [chosen -> { 0 } \cup TEXTURE_SIZES] :
            chosen \in SUBSET { list[k].index : k \in 1..Len(list) } }

\* The tasks buildProcessedGlb launches for a texture list and the options.
Launched(list, options) ==
  FetchTasks(list, blobs) \cup ResizeTasks(list, options, blobs)

\* No two tasks of a set write the same key of imagesToProcess.
DistinctKeys(tasks) == \A a, b \in tasks : a.index = b.index => a = b

\* C22: in every build the tasks still to come write pairwise distinct
\* keys, none of them a key already written; and whatever resize options
\* go with the texture list of the build, no resize task is launched for a
\* replaced handle and no index gets both a fetch and a resize task.
C22_DisjointPayloads ==
  \A c \in 1..Len(calls) :
    calls[c].phase = "building" =>
      /\ DistinctKeys(calls[c].pending)
      /\ \A task \in calls[c].pending : task.index \notin DOMAIN calls[c].imagesToProcess
      /\ \A options \in OptionMaps(calls[c].closure) :
           /\ DistinctKeys(Launched(calls[c].closure, options))
           /\ \A task \in Launched(calls[c].closure, options) :
                task.kind = "resize" =>
                  ~calls[c].closure[FindIndex(calls[c].closure, task.index)].isReplaced

\* A build of a list with a replaced texture and a resized one: the blob
\* of the replaced texture is written and the resize is still to come.
C22_Witness ==
  \E c \in 1..Len(calls) :
    /\ calls[c].phase = "building"
    /\ \E task \in calls[c].pending : task.kind = "resize"
    /\ \E i \in DOMAIN calls[c].imagesToProcess :
         calls[c].closure[FindIndex(calls[c].closure, i)].isReplaced

\* Call c of handleFileChange waits for the decode of an image that is not
\* the last of its document.
ProbesAhead(c) ==
  /\ calls[c].kind = "upload"
  /\ calls[c].phase = "decoding"
  /\ calls[c].i + 1 < ImagesLength(calls[c].json)

\* C23: while extractTextures waits for the decode of image i, the decode
\* of image i + 1 has been started: its object URL has been created after
\* the URL of image i.
C23_ProbesConcurrent ==
  \A c \in 1..Len(calls) : ProbesAhead(c) => Len(blobs) > calls[c].url

\* The keys of the tasks build c launched, or launches in this step.
LaunchedKeys(c) ==
  { task.index :
      task \in IF c \in 1..Len(calls)
                 THEN Launched(calls[c].closure, calls[c].options)
                 ELSE Launched(textures, resizeOptions) }

\* In this step build c goes on from the await of its tasks: it had been
\* waiting there, or it is called and does not wait.
LeavesBarrier(c) ==
  /\ c \in 1..Len(calls')
  /\ calls'[c].kind \in { "preview", "download" }
  /\ calls'[c].phase # "building"
  /\ c \in 1..Len(calls) => calls[c].phase = "building"

\* C24: a build calls rebuildGlb only with a map that has an entry for
\* every task it launched; a build that ends while a launched task has
\* written no entry has not called rebuildGlb, ends in its catch, leaves
\* the preview buffer as it was and isLoading false.
C24_BuildBarrier ==
  [][\A c \in 1..MaxCalls :
       LeavesBarrier(c) =>
         IF DOMAIN calls'[c].imagesToProcess = LaunchedKeys(c)
           THEN ~isLoading'
           ELSE /\ ~calls'[c].invoked
                /\ calls'[c].phase = "failed"
                /\ vrmPreviewBuffer' = vrmPreviewBuffer
                /\ ~isLoading']_Phases

\* A build with two tasks has called rebuildGlb; and a build has ended
\* after one of its two tasks failed.
C24_Witness ==
  \E c \in 1..Len(calls) :
    /\ calls[c].invoked
    /\ Cardinality(DOMAIN calls[c].imagesToProcess) = 2

C24_WitnessFailed ==
  \E c \in 1..Len(calls) :
    /\ calls[c].kind \in { "preview", "download" }
    /\ calls[c].phase = "failed"
    /\ ~calls[c].invoked
    /\ Cardinality(DOMAIN calls[c].imagesToProcess) = 1

(***************************************************************************)
(* Images that share a bufferView, and what a rebuild leaves of the        *)
(* document.                                                               *)
(***************************************************************************)
\* The images (0-based) of the input that name bufferView j (1-based).
OwnersOf(j) ==
  { i \in 0..(Len(ImagesOf(parsed.json)) - 1) : ViewOfImage(i) = j }

\* The highest index of a set of image indexes.
Highest(owners) == CHOOSE k \in owners : \A o \in owners : o <= k

\* The replacement map without the entries of the given image indexes.
MapWithout(map, keys) == [i \in DOMAIN map \ keys |-> map[i]]

\* C25: after rebuildGlb returns, a bufferView that several images name
\* holds the replacement payload of the highest of their indexes if the
\* map has that index and its original bytes if not; the buffer returned
\* is the one the call returns without the entries of the lower indexes.
C25_LastImageWins ==
  HasRebuilt =>
    \A j \in 1..Len(ViewsOf(parsed.json)) :
      Cardinality(OwnersOf(j)) >= 2 =>
        /\ NewBytes(j) =
             IF Highest(OwnersOf(j)) \in DOMAIN resizedImages
               THEN resizedImages[Highest(OwnersOf(j))].data
               ELSE OriginalBytes(j)
        /\ rebuilt.buffer =
             rebuildGlb(parsed.json, parsed.bin,
                        MapWithout(resizedImages,
                                   OwnersOf(j) \ { Highest(OwnersOf(j)) })).buffer

\* A call that returned for two images on one bufferView with a
\* replacement for the lower index only: the bufferView kept its bytes.
C25_Witness ==
  /\ HasRebuilt
  /\ OwnersOf(1) = { 0, 1 }
  /\ DOMAIN resizedImages = { 0 }
  /\ NewBytes(1) = OriginalBytes(1)
  /\ NewBytes(1) # resizedImages[0].data

\* The document out with the byteOffset and byteLength of every bufferView
\* and the byteLength of buffers[0] written back from the document in.
Restored(out, in) ==
  LET views == Get(out, K_bufferViews)
      buffers == Get(out, K_buffers)
      back == Arr([j \in 1..Length(views) |->
                     Set(Set(views.v[j], K_byteOffset,
                             Get(At(Get(in, K_bufferViews), j - 1), K_byteOffset)),
                         K_byteLength,
                         Get(At(Get(in, K_bufferViews), j - 1), K_byteLength))])
      first == Set(At(buffers, 0), K_byteLength,
                   Get(At(Get(in, K_buffers), 0), K_byteLength))
  IN  Set(Set(out, K_bufferViews, back), K_buffers, SetAt(buffers, 0, first))

\* C26: after rebuildGlb returns, the document of the buffer returned
\* differs from the input document in nothing but the byteOffset and
\* byteLength of the bufferViews and the byteLength of buffers[0]: with
\* these written back it is the input document, the mimeType of a replaced
\* image included.
C26_OnlyRangesChange ==
  HasRebuilt =>
    Bind(parseGlb(rebuilt.buffer), LAMBDA out :
      /\ out.ok
      /\ Length(Get(out.json, K_bufferViews)) = Length(Get(parsed.json, K_bufferViews))
      /\ Restored(out.json, parsed.json) = parsed.json)

\* A call that returned for a document with typed images, a texture and
\* an extension, with a payload of another length and another mimeType for
\* image 0: the image kept its mimeType.
C26_Witness ==
  /\ HasRebuilt
  /\ IsObj(Get(parsed.json, K_extensions))
  /\ IsArr(Get(parsed.json, K_textures))
  /\ 0 \in DOMAIN resizedImages
  /\ resizedImages[0].mimeType = "image/png"
  /\ LengthOf(ViewsOf(rebuilt.json)[ViewOfImage(0)])
       # LengthOf(ViewsOf(parsed.json)[ViewOfImage(0)])
  /\ IsString(Get(At(Get(rebuilt.json, K_images), 0), K_mimeType), ImageJpeg)

\* vrmData, the texture list and the preview buffer are those of an upload
\* of file f: the document and the raw block of the file, one handle for
\* each of its images, and the bytes of the file.
FromFile(f) ==
  Bind(parseGlb(files[f].bytes), LAMBDA p :
    /\ p.ok
    /\ vrmData.set
    /\ JSON_stringify(vrmData.json) = JSON_stringify(p.json)
    /\ vrmData.bin = p.bin
    /\ Len(textures) = ImagesLength(p.json)
    /\ \A k \in 1..Len(textures) :
         blobs[textures[k].blobUrl].data
           = ImageData(p.json, p.bin, textures[k].index)
    /\ vrmPreviewBuffer.set
    /\ vrmPreviewBuffer.bytes = files[f].bytes)

\* C27: when uploads overlap, a texture list that is shown goes with the
\* vrmData and the preview buffer of the same file.
C27_NoMixing ==
  textures # << >> => \E f \in 1..Len(files) : FromFile(f)

\* The phase and the pending tasks of every call.
Progress == [c \in 1..Len(calls) |-> << calls[c].phase, calls[c].pending >>]

\* This step is one of build c: the handler is called, or a task of it
\* ends.
BuildStep(c) ==
  /\ c \in 1..Len(calls')
  /\ calls'[c].kind \in { "preview", "download" }
  /\ c \in 1..Len(calls) =>
       /\ calls[c].phase = "building"
       /\ << calls'[c].phase, calls'[c].pending >>
            # << calls[c].phase, calls[c].pending >>

\* The buffer rebuildGlb returns for the document and the raw block of a
\* file of the session, as parseGlb returned them, and the map of build c.
FromParsed(buffer, map) ==
  \E f \in 1..Len(files) :
    Bind(parseGlb(files[f].bytes), LAMBDA p :
      p.ok /\ buffer = rebuildGlb(p.json, p.bin, map).buffer)

\* C28: a step of handlePreviewUpdate or handleProcessAndDownload leaves
\* vrmData, the texture list and the resize options as they were; a
\* download leaves the preview buffer as well; the buffer an Apply stores
\* is rebuilt from the document and the raw block as parsed from the file;
\* and no build starts or rebuilds when there are zero changes.
C28_BuildsLeaveSource ==
  [][\A c \in 1..MaxCalls :
       BuildStep(c) =>
         /\ vrmData' = vrmData
         /\ textures' = textures
         /\ resizeOptions' = resizeOptions
         /\ hasFinishedInitialLoad' = hasFinishedInitialLoad
         /\ isInitialUploadLoading' = isInitialUploadLoading
         /\ blobs' = blobs
         /\ vrmPreviewBuffer' # vrmPreviewBuffer =>
              /\ calls'[c].kind = "preview"
              /\ calls'[c].phase = "done"
              /\ FromParsed(vrmPreviewBuffer'.bytes, calls'[c].imagesToProcess)
         /\ c \in 1..Len(calls) /\ calls'[c].invoked =>
              ChangesCount(calls[c].closure, calls[c].options) > 0
         /\ c \notin 1..Len(calls) => ChangesCount(textures, resizeOptions) > 0]_Progress

\* Apply has been pressed twice on the same changes, and both calls have
\* rebuilt: vrmData is still the document of the file.
C28_Witness ==
  /\ Len(calls) = 3
  /\ calls[2].kind = "preview" /\ calls[2].invoked /\ calls[2].phase = "done"
  /\ calls[3].kind = "preview" /\ calls[3].invoked /\ calls[3].phase = "done"
  /\ calls[3].imagesToProcess = calls[2].imagesToProcess
  /\ DOMAIN calls[3].imagesToProcess # {}
  /\ vrmData.set
  /\ FromParsed(vrmPreviewBuffer.bytes, calls[3].imagesToProcess)

(***************************************************************************)
(* The rounds of the chunk loop, and the size of a resized image.          *)
(***************************************************************************)
\* The header of a buffer has the magic and the version parseGlb accepts.
HasValidHeader(buf) ==
  /\ canGetUint32(buf, 0) /\ getUint32(buf, 0) = GLB_MAGIC
  /\ canGetUint32(buf, 4) /\ getUint32(buf, 4) = GLB_VERSION

\* (byteLength - 12) / 8 rounded up, for a buffer that holds the header.
MostRounds(buf) == (Len(buf) - GLB_HEADER_SIZE + 7) \div 8

\* parseGlb ended on the buffer with the result r within the rounds the
\* length of the buffer allows: it returned, or it threw.
EndsInTime(buf, r) ==
  HasValidHeader(buf) =>
    /\ r.ok \/ r.error # << >>
    /\ r.iterations <= MostRounds(buf)

\* C29: on a buffer with a valid header the chunk loop of parseGlb ends:
\* every round moves the chunk offset on by at least 8, also for a chunk
\* that declares the length 0, and the call returns or throws after at most
\* (byteLength - 12) / 8, rounded up, rounds.
C29_LoopTerminates ==
  /\ \A chunkOffset \in GLB_HEADER_SIZE..Len(arrayBuffer), chunkLength \in 0..Len(arrayBuffer) :
       NextChunkOffset(chunkOffset, chunkLength) >= chunkOffset + 8
  /\ pc \in { "parsed", "failed", "compared" } => EndsInTime(arrayBuffer, parsed)
  /\ pc = "compared" => EndsInTime(variant.buffer, variantParsed)

\* parseGlb has returned after three rounds for a file whose second chunk
\* declares the length 0.
C29_Witness ==
  /\ pc = "parsed"
  /\ parsed.ok
  /\ Len(chunks) = 3
  /\ chunks[2] = EmptyChunk
  /\ parsed.iterations = 3
  /\ MostRounds(arrayBuffer) > 3

\* r is a nearest integer to a * n / b: no further from it than a half.
IsNearest(r, a, n, b) ==
  /\ 2 * b * r - 2 * a * n <= b
  /\ 2 * a * n - 2 * b * r <= b

\* The canvas is no larger than the image on either side and its larger
\* side is the smaller of newSize and the larger side of the image; an
\* image that fits newSize keeps its size.
IsCapped(img, newSize, canvas) ==
  /\ canvas.width <= img.width
  /\ canvas.height <= img.height
  /\ Max(canvas.width, canvas.height) = Min(Max(img.width, img.height), newSize)
  /\ Max(img.width, img.height) <= newSize => canvas = img

\* C30 as stated: resizeImage never makes a side larger and caps the larger
\* side at newSize; when the larger side exceeds newSize it becomes newSize
\* and the other side becomes other * newSize / larger rounded to the
\* nearest integer, a half rounded up.
C30_RoundedSide ==
  resizing.phase = "drawn" =>
    /\ IsCapped(resizing.img, resizing.newSize, resizing.canvas)
    /\ Max(resizing.img.width, resizing.img.height) > resizing.newSize =>
         IF resizing.img.width > resizing.img.height
           THEN resizing.canvas.height
                  = RoundExact(resizing.img.height, resizing.newSize, resizing.img.width)
           ELSE resizing.canvas.width
                  = RoundExact(resizing.img.width, resizing.newSize, resizing.img.height)

\* C30 with the rounding of the code: the other side becomes a nearest
\* integer to other * newSize / larger, which is the lower one of the two
\* for some values that lie at a half.
C30_NearestSide ==
  resizing.phase = "drawn" =>
    /\ IsCapped(resizing.img, resizing.newSize, resizing.canvas)
    /\ Max(resizing.img.width, resizing.img.height) > resizing.newSize =>
         IF resizing.img.width > resizing.img.height
           THEN IsNearest(resizing.canvas.height, resizing.img.height,
                          resizing.newSize, resizing.img.width)
           ELSE IsNearest(resizing.canvas.width, resizing.img.width,
                          resizing.newSize, resizing.img.height)

\* An image of 22 by 11 drawn for newSize 15: the width is 15, and the
\* height is 7, the lower neighbour of 7.5.
C30_Witness ==
  /\ resizing.phase = "drawn"
  /\ resizing.img = [width |-> 22, height |-> 11]
  /\ resizing.newSize = 15
  /\ resizing.canvas = [width |-> 15, height |-> 7]

====
